---- MODULE Spec2Model ----
(***************************************************************************)
(* A model of scraper.py (lovrop/codeforces-scraper).                      *)
(*                                                                         *)
(* Python strings are modelled as sequences of code points (naturals), so  *)
(* that chr(), str.find(), str.lower(), the link regular expression and    *)
(* the ordering used by sorted() are computed rather than assumed.  Tag    *)
(* and attribute names are only ever compared for equality by the code and *)
(* are kept as TLA+ strings.                                               *)
(*                                                                         *)
(* The specifications of the module:                                      *)
(*   Spec      - one ProblemHTMLParser fed one token at a time, then       *)
(*               getExamples();                                            *)
(*   SpecLinks - one ContestHTMLParser fed one start tag at a time, then   *)
(*               getProblems();                                            *)
(*   SpecMain  - the module-level flow: contest fetch, link extraction,    *)
(*               thread-pool fan-out of download_problem, process exit;    *)
(*   SpecMainFair - SpecMain under fair scheduling of the threads.         *)
(*                                                                         *)
(* Spec feeds the handlers directly, reference handlers included.  SpecMain*)
(* goes through feed(): with convert_charrefs set (Python 3.5 and later)   *)
(* references reach handle_data unescaped and the reference handlers are   *)
(* never called; both settings are initial states of SpecMain.             *)
(***************************************************************************)
EXTENDS Integers, Sequences, FiniteSets, TLC

VARIABLES
    parser,      \* Spec: the ProblemHTMLParser instance (self)
    pc,          \* Spec: "feed" | "raised" | "done" | "idle"
    result,      \* Spec: outcome of the handler that raised / of getExamples()
    seen,        \* Spec: the kinds of token fed so far (history of the input)
    cparser,     \* SpecLinks: the ContestHTMLParser instance (self)
    cpc,         \* SpecLinks: "feed" | "done" | "idle"
    cresult,     \* SpecLinks: the list getProblems() returned
    cfed,        \* SpecLinks: the start tags fed so far (history of the input)
    mpc,         \* SpecMain: the main thread: "fetch" | "parse" | "submit" | "adjust" | "start" | "exited" | "idle"
    contest_html,\* SpecMain: the contest page fetched, as the start tags it holds
    problems,    \* SpecMain: the list getProblems() returned
    tasks,       \* SpecMain: the download_problem calls submitted, in order
    queue,       \* SpecMain: the executor's work queue (task indices)
    nthreads,    \* SpecMain: worker threads the executor has started
    idle_sem,    \* SpecMain: the executor's idle-thread semaphore
    dirs,        \* SpecMain: the directories of the working directory
    files,       \* SpecMain: the files written: path -> content
    stdout,      \* SpecMain: the lines printed to stdout
    stderr,      \* SpecMain: what was printed to stderr
    exit_code,   \* SpecMain: the process exit status, -1 while it runs
    convert_charrefs  \* SpecMain: HTMLParser's default of the interpreter running the script

pvars == <<parser, pc, result, seen>>
lvars == <<cparser, cpc, cresult, cfed>>
mvars == <<mpc, contest_html, problems, tasks, queue, nthreads, idle_sem,
           dirs, files, stdout, stderr, exit_code, convert_charrefs>>
vars == <<pvars, lvars, mvars>>

(***************************************************************************)
(* Bounds of the model.                                                    *)
(***************************************************************************)
MaxNodes == 5    \* Node objects one parser may create
MaxData  == 1    \* characters of text appended by text / entity / charref tokens

(***************************************************************************)
(* Strings.                                                                *)
(***************************************************************************)
NL == <<10>>                                              \* "\n"
STR_sample      == <<115, 97, 109, 112, 108, 101>>        \* "sample"
STR_sample_test == <<115, 97, 109, 112, 108, 101, 45, 116, 101, 115, 116>> \* "sample-test"
STR_input       == <<105, 110, 112, 117, 116>>            \* "input"

Range(s) == {s[i] : i \in DOMAIN s}

\* s[i:] for a 0-based i
SliceFrom(s, i) == SubSeq(s, i + 1, Len(s))

\* s.startswith(sub, i) for a 0-based i
MatchesAt(s, sub, i) ==
    /\ i + Len(sub) <= Len(s)
    /\ \A k \in 1..Len(sub) : s[i + k] = sub[k]

\* str.find: lowest 0-based index at which sub occurs in s, -1 when none.
Find(s, sub) ==
    LET hits == {i \in 0..Len(s) : MatchesAt(s, sub, i)}
    IN  IF hits = {} THEN -1 ELSE CHOOSE i \in hits : \A j \in hits : i <= j

\* dict(attrs): attrs is the tokenizer's list of (name, value) pairs; a
\* later pair with the same name replaces an earlier one.
Dict(attrs) ==
    [k \in {attrs[i][1] : i \in DOMAIN attrs} |->
        LET idx == {i \in DOMAIN attrs : attrs[i][1] = k}
        IN  attrs[CHOOSE i \in idx : \A j \in idx : j <= i][2]]

\* dict.get(k, default)
Get(d, k, default) == IF k \in DOMAIN d THEN d[k] ELSE default

(***************************************************************************)
(* The interpreter's character tables (CPython 3.11, Unicode 14.0.0), as   *)
(* read off the interpreter: every code point 0..0x10FFFF was put through  *)
(* re's \d and \w, str.isspace(), int() and str.lower().  A table of       *)
(* ranges lists pairs <<first, last>> in ascending order.                  *)
(***************************************************************************)
\* The zero of every run of ten decimal digits (\d, int()): ASCII 0-9,
\* Arabic-Indic, Devanagari, fullwidth, ...
DECIMAL_ZEROS ==
    { 48, 1632, 1776, 1984, 2406, 2534, 2662, 2790, 2918, 3046,
      3174, 3302, 3430, 3558, 3664, 3792, 3872, 4160, 4240, 6112,
      6160, 6470, 6608, 6784, 6800, 6992, 7088, 7232, 7248, 42528,
      43216, 43264, 43472, 43504, 43600, 44016, 65296, 66720, 68912, 69734,
      69872, 69942, 70096, 70384, 70736, 70864, 71248, 71360, 71472, 71904,
      72016, 72784, 73040, 73120, 92768, 92864, 93008, 120782, 120792, 120802,
      120812, 120822, 123200, 123632, 125264, 130032 }

\* White space beyond ASCII (str.isspace): int() strips it like a blank.
UNICODE_SPACE ==
    << <<133, 133>>, <<160, 160>>, <<5760, 5760>>, <<8192, 8202>>, <<8232, 8233>>, <<8239, 8239>>,
       <<8287, 8287>>, <<12288, 12288>> >>

\* \w of a str pattern: alphanumeric characters and the underscore.
UNICODE_WORD ==
    << <<48, 57>>, <<65, 90>>, <<95, 95>>, <<97, 122>>, <<170, 170>>, <<178, 179>>,
       <<181, 181>>, <<185, 186>>, <<188, 190>>, <<192, 214>>, <<216, 246>>, <<248, 705>>,
       <<710, 721>>, <<736, 740>>, <<748, 748>>, <<750, 750>>, <<880, 884>>, <<886, 887>>,
       <<890, 893>>, <<895, 895>>, <<902, 902>>, <<904, 906>>, <<908, 908>>, <<910, 929>>,
       <<931, 1013>>, <<1015, 1153>>, <<1162, 1327>>, <<1329, 1366>>, <<1369, 1369>>, <<1376, 1416>>,
       <<1488, 1514>>, <<1519, 1522>>, <<1568, 1610>>, <<1632, 1641>>, <<1646, 1647>>, <<1649, 1747>>,
       <<1749, 1749>>, <<1765, 1766>>, <<1774, 1788>>, <<1791, 1791>>, <<1808, 1808>>, <<1810, 1839>>,
       <<1869, 1957>>, <<1969, 1969>>, <<1984, 2026>>, <<2036, 2037>>, <<2042, 2042>>, <<2048, 2069>>,
       <<2074, 2074>>, <<2084, 2084>>, <<2088, 2088>>, <<2112, 2136>>, <<2144, 2154>>, <<2160, 2183>>,
       <<2185, 2190>>, <<2208, 2249>>, <<2308, 2361>>, <<2365, 2365>>, <<2384, 2384>>, <<2392, 2401>>,
       <<2406, 2415>>, <<2417, 2432>>, <<2437, 2444>>, <<2447, 2448>>, <<2451, 2472>>, <<2474, 2480>>,
       <<2482, 2482>>, <<2486, 2489>>, <<2493, 2493>>, <<2510, 2510>>, <<2524, 2525>>, <<2527, 2529>>,
       <<2534, 2545>>, <<2548, 2553>>, <<2556, 2556>>, <<2565, 2570>>, <<2575, 2576>>, <<2579, 2600>>,
       <<2602, 2608>>, <<2610, 2611>>, <<2613, 2614>>, <<2616, 2617>>, <<2649, 2652>>, <<2654, 2654>>,
       <<2662, 2671>>, <<2674, 2676>>, <<2693, 2701>>, <<2703, 2705>>, <<2707, 2728>>, <<2730, 2736>>,
       <<2738, 2739>>, <<2741, 2745>>, <<2749, 2749>>, <<2768, 2768>>, <<2784, 2785>>, <<2790, 2799>>,
       <<2809, 2809>>, <<2821, 2828>>, <<2831, 2832>>, <<2835, 2856>>, <<2858, 2864>>, <<2866, 2867>>,
       <<2869, 2873>>, <<2877, 2877>>, <<2908, 2909>>, <<2911, 2913>>, <<2918, 2927>>, <<2929, 2935>>,
       <<2947, 2947>>, <<2949, 2954>>, <<2958, 2960>>, <<2962, 2965>>, <<2969, 2970>>, <<2972, 2972>>,
       <<2974, 2975>>, <<2979, 2980>>, <<2984, 2986>>, <<2990, 3001>>, <<3024, 3024>>, <<3046, 3058>>,
       <<3077, 3084>>, <<3086, 3088>>, <<3090, 3112>>, <<3114, 3129>>, <<3133, 3133>>, <<3160, 3162>>,
       <<3165, 3165>>, <<3168, 3169>>, <<3174, 3183>>, <<3192, 3198>>, <<3200, 3200>>, <<3205, 3212>>,
       <<3214, 3216>>, <<3218, 3240>>, <<3242, 3251>>, <<3253, 3257>>, <<3261, 3261>>, <<3293, 3294>>,
       <<3296, 3297>>, <<3302, 3311>>, <<3313, 3314>>, <<3332, 3340>>, <<3342, 3344>>, <<3346, 3386>>,
       <<3389, 3389>>, <<3406, 3406>>, <<3412, 3414>>, <<3416, 3425>>, <<3430, 3448>>, <<3450, 3455>>,
       <<3461, 3478>>, <<3482, 3505>>, <<3507, 3515>>, <<3517, 3517>>, <<3520, 3526>>, <<3558, 3567>>,
       <<3585, 3632>>, <<3634, 3635>>, <<3648, 3654>>, <<3664, 3673>>, <<3713, 3714>>, <<3716, 3716>>,
       <<3718, 3722>>, <<3724, 3747>>, <<3749, 3749>>, <<3751, 3760>>, <<3762, 3763>>, <<3773, 3773>>,
       <<3776, 3780>>, <<3782, 3782>>, <<3792, 3801>>, <<3804, 3807>>, <<3840, 3840>>, <<3872, 3891>>,
       <<3904, 3911>>, <<3913, 3948>>, <<3976, 3980>>, <<4096, 4138>>, <<4159, 4169>>, <<4176, 4181>>,
       <<4186, 4189>>, <<4193, 4193>>, <<4197, 4198>>, <<4206, 4208>>, <<4213, 4225>>, <<4238, 4238>>,
       <<4240, 4249>>, <<4256, 4293>>, <<4295, 4295>>, <<4301, 4301>>, <<4304, 4346>>, <<4348, 4680>>,
       <<4682, 4685>>, <<4688, 4694>>, <<4696, 4696>>, <<4698, 4701>>, <<4704, 4744>>, <<4746, 4749>>,
       <<4752, 4784>>, <<4786, 4789>>, <<4792, 4798>>, <<4800, 4800>>, <<4802, 4805>>, <<4808, 4822>>,
       <<4824, 4880>>, <<4882, 4885>>, <<4888, 4954>>, <<4969, 4988>>, <<4992, 5007>>, <<5024, 5109>>,
       <<5112, 5117>>, <<5121, 5740>>, <<5743, 5759>>, <<5761, 5786>>, <<5792, 5866>>, <<5870, 5880>>,
       <<5888, 5905>>, <<5919, 5937>>, <<5952, 5969>>, <<5984, 5996>>, <<5998, 6000>>, <<6016, 6067>>,
       <<6103, 6103>>, <<6108, 6108>>, <<6112, 6121>>, <<6128, 6137>>, <<6160, 6169>>, <<6176, 6264>>,
       <<6272, 6276>>, <<6279, 6312>>, <<6314, 6314>>, <<6320, 6389>>, <<6400, 6430>>, <<6470, 6509>>,
       <<6512, 6516>>, <<6528, 6571>>, <<6576, 6601>>, <<6608, 6618>>, <<6656, 6678>>, <<6688, 6740>>,
       <<6784, 6793>>, <<6800, 6809>>, <<6823, 6823>>, <<6917, 6963>>, <<6981, 6988>>, <<6992, 7001>>,
       <<7043, 7072>>, <<7086, 7141>>, <<7168, 7203>>, <<7232, 7241>>, <<7245, 7293>>, <<7296, 7304>>,
       <<7312, 7354>>, <<7357, 7359>>, <<7401, 7404>>, <<7406, 7411>>, <<7413, 7414>>, <<7418, 7418>>,
       <<7424, 7615>>, <<7680, 7957>>, <<7960, 7965>>, <<7968, 8005>>, <<8008, 8013>>, <<8016, 8023>>,
       <<8025, 8025>>, <<8027, 8027>>, <<8029, 8029>>, <<8031, 8061>>, <<8064, 8116>>, <<8118, 8124>>,
       <<8126, 8126>>, <<8130, 8132>>, <<8134, 8140>>, <<8144, 8147>>, <<8150, 8155>>, <<8160, 8172>>,
       <<8178, 8180>>, <<8182, 8188>>, <<8304, 8305>>, <<8308, 8313>>, <<8319, 8329>>, <<8336, 8348>>,
       <<8450, 8450>>, <<8455, 8455>>, <<8458, 8467>>, <<8469, 8469>>, <<8473, 8477>>, <<8484, 8484>>,
       <<8486, 8486>>, <<8488, 8488>>, <<8490, 8493>>, <<8495, 8505>>, <<8508, 8511>>, <<8517, 8521>>,
       <<8526, 8526>>, <<8528, 8585>>, <<9312, 9371>>, <<9450, 9471>>, <<10102, 10131>>, <<11264, 11492>>,
       <<11499, 11502>>, <<11506, 11507>>, <<11517, 11517>>, <<11520, 11557>>, <<11559, 11559>>, <<11565, 11565>>,
       <<11568, 11623>>, <<11631, 11631>>, <<11648, 11670>>, <<11680, 11686>>, <<11688, 11694>>, <<11696, 11702>>,
       <<11704, 11710>>, <<11712, 11718>>, <<11720, 11726>>, <<11728, 11734>>, <<11736, 11742>>, <<11823, 11823>>,
       <<12293, 12295>>, <<12321, 12329>>, <<12337, 12341>>, <<12344, 12348>>, <<12353, 12438>>, <<12445, 12447>>,
       <<12449, 12538>>, <<12540, 12543>>, <<12549, 12591>>, <<12593, 12686>>, <<12690, 12693>>, <<12704, 12735>>,
       <<12784, 12799>>, <<12832, 12841>>, <<12872, 12879>>, <<12881, 12895>>, <<12928, 12937>>, <<12977, 12991>>,
       <<13312, 19903>>, <<19968, 42124>>, <<42192, 42237>>, <<42240, 42508>>, <<42512, 42539>>, <<42560, 42606>>,
       <<42623, 42653>>, <<42656, 42735>>, <<42775, 42783>>, <<42786, 42888>>, <<42891, 42954>>, <<42960, 42961>>,
       <<42963, 42963>>, <<42965, 42969>>, <<42994, 43009>>, <<43011, 43013>>, <<43015, 43018>>, <<43020, 43042>>,
       <<43056, 43061>>, <<43072, 43123>>, <<43138, 43187>>, <<43216, 43225>>, <<43250, 43255>>, <<43259, 43259>>,
       <<43261, 43262>>, <<43264, 43301>>, <<43312, 43334>>, <<43360, 43388>>, <<43396, 43442>>, <<43471, 43481>>,
       <<43488, 43492>>, <<43494, 43518>>, <<43520, 43560>>, <<43584, 43586>>, <<43588, 43595>>, <<43600, 43609>>,
       <<43616, 43638>>, <<43642, 43642>>, <<43646, 43695>>, <<43697, 43697>>, <<43701, 43702>>, <<43705, 43709>>,
       <<43712, 43712>>, <<43714, 43714>>, <<43739, 43741>>, <<43744, 43754>>, <<43762, 43764>>, <<43777, 43782>>,
       <<43785, 43790>>, <<43793, 43798>>, <<43808, 43814>>, <<43816, 43822>>, <<43824, 43866>>, <<43868, 43881>>,
       <<43888, 44002>>, <<44016, 44025>>, <<44032, 55203>>, <<55216, 55238>>, <<55243, 55291>>, <<63744, 64109>>,
       <<64112, 64217>>, <<64256, 64262>>, <<64275, 64279>>, <<64285, 64285>>, <<64287, 64296>>, <<64298, 64310>>,
       <<64312, 64316>>, <<64318, 64318>>, <<64320, 64321>>, <<64323, 64324>>, <<64326, 64433>>, <<64467, 64829>>,
       <<64848, 64911>>, <<64914, 64967>>, <<65008, 65019>>, <<65136, 65140>>, <<65142, 65276>>, <<65296, 65305>>,
       <<65313, 65338>>, <<65345, 65370>>, <<65382, 65470>>, <<65474, 65479>>, <<65482, 65487>>, <<65490, 65495>>,
       <<65498, 65500>>, <<65536, 65547>>, <<65549, 65574>>, <<65576, 65594>>, <<65596, 65597>>, <<65599, 65613>>,
       <<65616, 65629>>, <<65664, 65786>>, <<65799, 65843>>, <<65856, 65912>>, <<65930, 65931>>, <<66176, 66204>>,
       <<66208, 66256>>, <<66273, 66299>>, <<66304, 66339>>, <<66349, 66378>>, <<66384, 66421>>, <<66432, 66461>>,
       <<66464, 66499>>, <<66504, 66511>>, <<66513, 66517>>, <<66560, 66717>>, <<66720, 66729>>, <<66736, 66771>>,
       <<66776, 66811>>, <<66816, 66855>>, <<66864, 66915>>, <<66928, 66938>>, <<66940, 66954>>, <<66956, 66962>>,
       <<66964, 66965>>, <<66967, 66977>>, <<66979, 66993>>, <<66995, 67001>>, <<67003, 67004>>, <<67072, 67382>>,
       <<67392, 67413>>, <<67424, 67431>>, <<67456, 67461>>, <<67463, 67504>>, <<67506, 67514>>, <<67584, 67589>>,
       <<67592, 67592>>, <<67594, 67637>>, <<67639, 67640>>, <<67644, 67644>>, <<67647, 67669>>, <<67672, 67702>>,
       <<67705, 67742>>, <<67751, 67759>>, <<67808, 67826>>, <<67828, 67829>>, <<67835, 67867>>, <<67872, 67897>>,
       <<67968, 68023>>, <<68028, 68047>>, <<68050, 68096>>, <<68112, 68115>>, <<68117, 68119>>, <<68121, 68149>>,
       <<68160, 68168>>, <<68192, 68222>>, <<68224, 68255>>, <<68288, 68295>>, <<68297, 68324>>, <<68331, 68335>>,
       <<68352, 68405>>, <<68416, 68437>>, <<68440, 68466>>, <<68472, 68497>>, <<68521, 68527>>, <<68608, 68680>>,
       <<68736, 68786>>, <<68800, 68850>>, <<68858, 68899>>, <<68912, 68921>>, <<69216, 69246>>, <<69248, 69289>>,
       <<69296, 69297>>, <<69376, 69415>>, <<69424, 69445>>, <<69457, 69460>>, <<69488, 69505>>, <<69552, 69579>>,
       <<69600, 69622>>, <<69635, 69687>>, <<69714, 69743>>, <<69745, 69746>>, <<69749, 69749>>, <<69763, 69807>>,
       <<69840, 69864>>, <<69872, 69881>>, <<69891, 69926>>, <<69942, 69951>>, <<69956, 69956>>, <<69959, 69959>>,
       <<69968, 70002>>, <<70006, 70006>>, <<70019, 70066>>, <<70081, 70084>>, <<70096, 70106>>, <<70108, 70108>>,
       <<70113, 70132>>, <<70144, 70161>>, <<70163, 70187>>, <<70272, 70278>>, <<70280, 70280>>, <<70282, 70285>>,
       <<70287, 70301>>, <<70303, 70312>>, <<70320, 70366>>, <<70384, 70393>>, <<70405, 70412>>, <<70415, 70416>>,
       <<70419, 70440>>, <<70442, 70448>>, <<70450, 70451>>, <<70453, 70457>>, <<70461, 70461>>, <<70480, 70480>>,
       <<70493, 70497>>, <<70656, 70708>>, <<70727, 70730>>, <<70736, 70745>>, <<70751, 70753>>, <<70784, 70831>>,
       <<70852, 70853>>, <<70855, 70855>>, <<70864, 70873>>, <<71040, 71086>>, <<71128, 71131>>, <<71168, 71215>>,
       <<71236, 71236>>, <<71248, 71257>>, <<71296, 71338>>, <<71352, 71352>>, <<71360, 71369>>, <<71424, 71450>>,
       <<71472, 71483>>, <<71488, 71494>>, <<71680, 71723>>, <<71840, 71922>>, <<71935, 71942>>, <<71945, 71945>>,
       <<71948, 71955>>, <<71957, 71958>>, <<71960, 71983>>, <<71999, 71999>>, <<72001, 72001>>, <<72016, 72025>>,
       <<72096, 72103>>, <<72106, 72144>>, <<72161, 72161>>, <<72163, 72163>>, <<72192, 72192>>, <<72203, 72242>>,
       <<72250, 72250>>, <<72272, 72272>>, <<72284, 72329>>, <<72349, 72349>>, <<72368, 72440>>, <<72704, 72712>>,
       <<72714, 72750>>, <<72768, 72768>>, <<72784, 72812>>, <<72818, 72847>>, <<72960, 72966>>, <<72968, 72969>>,
       <<72971, 73008>>, <<73030, 73030>>, <<73040, 73049>>, <<73056, 73061>>, <<73063, 73064>>, <<73066, 73097>>,
       <<73112, 73112>>, <<73120, 73129>>, <<73440, 73458>>, <<73648, 73648>>, <<73664, 73684>>, <<73728, 74649>>,
       <<74752, 74862>>, <<74880, 75075>>, <<77712, 77808>>, <<77824, 78894>>, <<82944, 83526>>, <<92160, 92728>>,
       <<92736, 92766>>, <<92768, 92777>>, <<92784, 92862>>, <<92864, 92873>>, <<92880, 92909>>, <<92928, 92975>>,
       <<92992, 92995>>, <<93008, 93017>>, <<93019, 93025>>, <<93027, 93047>>, <<93053, 93071>>, <<93760, 93846>>,
       <<93952, 94026>>, <<94032, 94032>>, <<94099, 94111>>, <<94176, 94177>>, <<94179, 94179>>, <<94208, 100343>>,
       <<100352, 101589>>, <<101632, 101640>>, <<110576, 110579>>, <<110581, 110587>>, <<110589, 110590>>, <<110592, 110882>>,
       <<110928, 110930>>, <<110948, 110951>>, <<110960, 111355>>, <<113664, 113770>>, <<113776, 113788>>, <<113792, 113800>>,
       <<113808, 113817>>, <<119520, 119539>>, <<119648, 119672>>, <<119808, 119892>>, <<119894, 119964>>, <<119966, 119967>>,
       <<119970, 119970>>, <<119973, 119974>>, <<119977, 119980>>, <<119982, 119993>>, <<119995, 119995>>, <<119997, 120003>>,
       <<120005, 120069>>, <<120071, 120074>>, <<120077, 120084>>, <<120086, 120092>>, <<120094, 120121>>, <<120123, 120126>>,
       <<120128, 120132>>, <<120134, 120134>>, <<120138, 120144>>, <<120146, 120485>>, <<120488, 120512>>, <<120514, 120538>>,
       <<120540, 120570>>, <<120572, 120596>>, <<120598, 120628>>, <<120630, 120654>>, <<120656, 120686>>, <<120688, 120712>>,
       <<120714, 120744>>, <<120746, 120770>>, <<120772, 120779>>, <<120782, 120831>>, <<122624, 122654>>, <<123136, 123180>>,
       <<123191, 123197>>, <<123200, 123209>>, <<123214, 123214>>, <<123536, 123565>>, <<123584, 123627>>, <<123632, 123641>>,
       <<124896, 124902>>, <<124904, 124907>>, <<124909, 124910>>, <<124912, 124926>>, <<124928, 125124>>, <<125127, 125135>>,
       <<125184, 125251>>, <<125259, 125259>>, <<125264, 125273>>, <<126065, 126123>>, <<126125, 126127>>, <<126129, 126132>>,
       <<126209, 126253>>, <<126255, 126269>>, <<126464, 126467>>, <<126469, 126495>>, <<126497, 126498>>, <<126500, 126500>>,
       <<126503, 126503>>, <<126505, 126514>>, <<126516, 126519>>, <<126521, 126521>>, <<126523, 126523>>, <<126530, 126530>>,
       <<126535, 126535>>, <<126537, 126537>>, <<126539, 126539>>, <<126541, 126543>>, <<126545, 126546>>, <<126548, 126548>>,
       <<126551, 126551>>, <<126553, 126553>>, <<126555, 126555>>, <<126557, 126557>>, <<126559, 126559>>, <<126561, 126562>>,
       <<126564, 126564>>, <<126567, 126570>>, <<126572, 126578>>, <<126580, 126583>>, <<126585, 126588>>, <<126590, 126590>>,
       <<126592, 126601>>, <<126603, 126619>>, <<126625, 126627>>, <<126629, 126633>>, <<126635, 126651>>, <<127232, 127244>>,
       <<130032, 130041>>, <<131072, 173791>>, <<173824, 177976>>, <<177984, 178205>>, <<178208, 183969>>, <<183984, 191456>>,
       <<194560, 195101>>, <<196608, 201546>> >>

\* str.lower() of one character that lowers to one other character:
\* <<first, last, step, delta>> maps first, first + step, ..., last to the
\* character delta code points further on.
UNICODE_LOWER ==
    << <<65, 90, 1, 32>>, <<192, 214, 1, 32>>, <<216, 222, 1, 32>>, <<256, 302, 2, 1>>,
       <<306, 310, 2, 1>>, <<313, 327, 2, 1>>, <<330, 374, 2, 1>>, <<376, 376, 1, -121>>,
       <<377, 381, 2, 1>>, <<385, 385, 1, 210>>, <<386, 388, 2, 1>>, <<390, 390, 1, 206>>,
       <<391, 391, 1, 1>>, <<393, 394, 1, 205>>, <<395, 395, 1, 1>>, <<398, 398, 1, 79>>,
       <<399, 399, 1, 202>>, <<400, 400, 1, 203>>, <<401, 401, 1, 1>>, <<403, 403, 1, 205>>,
       <<404, 404, 1, 207>>, <<406, 406, 1, 211>>, <<407, 407, 1, 209>>, <<408, 408, 1, 1>>,
       <<412, 412, 1, 211>>, <<413, 413, 1, 213>>, <<415, 415, 1, 214>>, <<416, 420, 2, 1>>,
       <<422, 422, 1, 218>>, <<423, 423, 1, 1>>, <<425, 425, 1, 218>>, <<428, 428, 1, 1>>,
       <<430, 430, 1, 218>>, <<431, 431, 1, 1>>, <<433, 434, 1, 217>>, <<435, 437, 2, 1>>,
       <<439, 439, 1, 219>>, <<440, 440, 1, 1>>, <<444, 444, 1, 1>>, <<452, 452, 1, 2>>,
       <<453, 453, 1, 1>>, <<455, 455, 1, 2>>, <<456, 456, 1, 1>>, <<458, 458, 1, 2>>,
       <<459, 475, 2, 1>>, <<478, 494, 2, 1>>, <<497, 497, 1, 2>>, <<498, 500, 2, 1>>,
       <<502, 502, 1, -97>>, <<503, 503, 1, -56>>, <<504, 542, 2, 1>>, <<544, 544, 1, -130>>,
       <<546, 562, 2, 1>>, <<570, 570, 1, 10795>>, <<571, 571, 1, 1>>, <<573, 573, 1, -163>>,
       <<574, 574, 1, 10792>>, <<577, 577, 1, 1>>, <<579, 579, 1, -195>>, <<580, 580, 1, 69>>,
       <<581, 581, 1, 71>>, <<582, 590, 2, 1>>, <<880, 882, 2, 1>>, <<886, 886, 1, 1>>,
       <<895, 895, 1, 116>>, <<902, 902, 1, 38>>, <<904, 906, 1, 37>>, <<908, 908, 1, 64>>,
       <<910, 911, 1, 63>>, <<913, 929, 1, 32>>, <<931, 939, 1, 32>>, <<975, 975, 1, 8>>,
       <<984, 1006, 2, 1>>, <<1012, 1012, 1, -60>>, <<1015, 1015, 1, 1>>, <<1017, 1017, 1, -7>>,
       <<1018, 1018, 1, 1>>, <<1021, 1023, 1, -130>>, <<1024, 1039, 1, 80>>, <<1040, 1071, 1, 32>>,
       <<1120, 1152, 2, 1>>, <<1162, 1214, 2, 1>>, <<1216, 1216, 1, 15>>, <<1217, 1229, 2, 1>>,
       <<1232, 1326, 2, 1>>, <<1329, 1366, 1, 48>>, <<4256, 4293, 1, 7264>>, <<4295, 4295, 1, 7264>>,
       <<4301, 4301, 1, 7264>>, <<5024, 5103, 1, 38864>>, <<5104, 5109, 1, 8>>, <<7312, 7354, 1, -3008>>,
       <<7357, 7359, 1, -3008>>, <<7680, 7828, 2, 1>>, <<7838, 7838, 1, -7615>>, <<7840, 7934, 2, 1>>,
       <<7944, 7951, 1, -8>>, <<7960, 7965, 1, -8>>, <<7976, 7983, 1, -8>>, <<7992, 7999, 1, -8>>,
       <<8008, 8013, 1, -8>>, <<8025, 8031, 2, -8>>, <<8040, 8047, 1, -8>>, <<8072, 8079, 1, -8>>,
       <<8088, 8095, 1, -8>>, <<8104, 8111, 1, -8>>, <<8120, 8121, 1, -8>>, <<8122, 8123, 1, -74>>,
       <<8124, 8124, 1, -9>>, <<8136, 8139, 1, -86>>, <<8140, 8140, 1, -9>>, <<8152, 8153, 1, -8>>,
       <<8154, 8155, 1, -100>>, <<8168, 8169, 1, -8>>, <<8170, 8171, 1, -112>>, <<8172, 8172, 1, -7>>,
       <<8184, 8185, 1, -128>>, <<8186, 8187, 1, -126>>, <<8188, 8188, 1, -9>>, <<8486, 8486, 1, -7517>>,
       <<8490, 8490, 1, -8383>>, <<8491, 8491, 1, -8262>>, <<8498, 8498, 1, 28>>, <<8544, 8559, 1, 16>>,
       <<8579, 8579, 1, 1>>, <<9398, 9423, 1, 26>>, <<11264, 11311, 1, 48>>, <<11360, 11360, 1, 1>>,
       <<11362, 11362, 1, -10743>>, <<11363, 11363, 1, -3814>>, <<11364, 11364, 1, -10727>>, <<11367, 11371, 2, 1>>,
       <<11373, 11373, 1, -10780>>, <<11374, 11374, 1, -10749>>, <<11375, 11375, 1, -10783>>, <<11376, 11376, 1, -10782>>,
       <<11378, 11378, 1, 1>>, <<11381, 11381, 1, 1>>, <<11390, 11391, 1, -10815>>, <<11392, 11490, 2, 1>>,
       <<11499, 11501, 2, 1>>, <<11506, 11506, 1, 1>>, <<42560, 42604, 2, 1>>, <<42624, 42650, 2, 1>>,
       <<42786, 42798, 2, 1>>, <<42802, 42862, 2, 1>>, <<42873, 42875, 2, 1>>, <<42877, 42877, 1, -35332>>,
       <<42878, 42886, 2, 1>>, <<42891, 42891, 1, 1>>, <<42893, 42893, 1, -42280>>, <<42896, 42898, 2, 1>>,
       <<42902, 42920, 2, 1>>, <<42922, 42922, 1, -42308>>, <<42923, 42923, 1, -42319>>, <<42924, 42924, 1, -42315>>,
       <<42925, 42925, 1, -42305>>, <<42926, 42926, 1, -42308>>, <<42928, 42928, 1, -42258>>, <<42929, 42929, 1, -42282>>,
       <<42930, 42930, 1, -42261>>, <<42931, 42931, 1, 928>>, <<42932, 42946, 2, 1>>, <<42948, 42948, 1, -48>>,
       <<42949, 42949, 1, -42307>>, <<42950, 42950, 1, -35384>>, <<42951, 42953, 2, 1>>, <<42960, 42960, 1, 1>>,
       <<42966, 42968, 2, 1>>, <<42997, 42997, 1, 1>>, <<65313, 65338, 1, 32>>, <<66560, 66599, 1, 40>>,
       <<66736, 66771, 1, 40>>, <<66928, 66938, 1, 39>>, <<66940, 66954, 1, 39>>, <<66956, 66962, 1, 39>>,
       <<66964, 66965, 1, 39>>, <<68736, 68786, 1, 64>>, <<71840, 71871, 1, 32>>, <<93760, 93791, 1, 32>>,
       <<125184, 125217, 1, 34>> >>

\* Case-ignorable characters, which the final-sigma rule of str.lower()
\* skips on both sides of a capital sigma.
CASE_IGNORABLE ==
    << <<39, 39>>, <<46, 46>>, <<58, 58>>, <<94, 94>>, <<96, 96>>, <<168, 168>>,
       <<173, 173>>, <<175, 175>>, <<180, 180>>, <<183, 184>>, <<688, 879>>, <<884, 885>>,
       <<890, 890>>, <<900, 901>>, <<903, 903>>, <<1155, 1161>>, <<1369, 1369>>, <<1375, 1375>>,
       <<1425, 1469>>, <<1471, 1471>>, <<1473, 1474>>, <<1476, 1477>>, <<1479, 1479>>, <<1524, 1524>>,
       <<1536, 1541>>, <<1552, 1562>>, <<1564, 1564>>, <<1600, 1600>>, <<1611, 1631>>, <<1648, 1648>>,
       <<1750, 1757>>, <<1759, 1768>>, <<1770, 1773>>, <<1807, 1807>>, <<1809, 1809>>, <<1840, 1866>>,
       <<1958, 1968>>, <<2027, 2037>>, <<2042, 2042>>, <<2045, 2045>>, <<2070, 2093>>, <<2137, 2139>>,
       <<2184, 2184>>, <<2192, 2193>>, <<2200, 2207>>, <<2249, 2306>>, <<2362, 2362>>, <<2364, 2364>>,
       <<2369, 2376>>, <<2381, 2381>>, <<2385, 2391>>, <<2402, 2403>>, <<2417, 2417>>, <<2433, 2433>>,
       <<2492, 2492>>, <<2497, 2500>>, <<2509, 2509>>, <<2530, 2531>>, <<2558, 2558>>, <<2561, 2562>>,
       <<2620, 2620>>, <<2625, 2626>>, <<2631, 2632>>, <<2635, 2637>>, <<2641, 2641>>, <<2672, 2673>>,
       <<2677, 2677>>, <<2689, 2690>>, <<2748, 2748>>, <<2753, 2757>>, <<2759, 2760>>, <<2765, 2765>>,
       <<2786, 2787>>, <<2810, 2815>>, <<2817, 2817>>, <<2876, 2876>>, <<2879, 2879>>, <<2881, 2884>>,
       <<2893, 2893>>, <<2901, 2902>>, <<2914, 2915>>, <<2946, 2946>>, <<3008, 3008>>, <<3021, 3021>>,
       <<3072, 3072>>, <<3076, 3076>>, <<3132, 3132>>, <<3134, 3136>>, <<3142, 3144>>, <<3146, 3149>>,
       <<3157, 3158>>, <<3170, 3171>>, <<3201, 3201>>, <<3260, 3260>>, <<3263, 3263>>, <<3270, 3270>>,
       <<3276, 3277>>, <<3298, 3299>>, <<3328, 3329>>, <<3387, 3388>>, <<3393, 3396>>, <<3405, 3405>>,
       <<3426, 3427>>, <<3457, 3457>>, <<3530, 3530>>, <<3538, 3540>>, <<3542, 3542>>, <<3633, 3633>>,
       <<3636, 3642>>, <<3654, 3662>>, <<3761, 3761>>, <<3764, 3772>>, <<3782, 3782>>, <<3784, 3789>>,
       <<3864, 3865>>, <<3893, 3893>>, <<3895, 3895>>, <<3897, 3897>>, <<3953, 3966>>, <<3968, 3972>>,
       <<3974, 3975>>, <<3981, 3991>>, <<3993, 4028>>, <<4038, 4038>>, <<4141, 4144>>, <<4146, 4151>>,
       <<4153, 4154>>, <<4157, 4158>>, <<4184, 4185>>, <<4190, 4192>>, <<4209, 4212>>, <<4226, 4226>>,
       <<4229, 4230>>, <<4237, 4237>>, <<4253, 4253>>, <<4348, 4348>>, <<4957, 4959>>, <<5906, 5908>>,
       <<5938, 5939>>, <<5970, 5971>>, <<6002, 6003>>, <<6068, 6069>>, <<6071, 6077>>, <<6086, 6086>>,
       <<6089, 6099>>, <<6103, 6103>>, <<6109, 6109>>, <<6155, 6159>>, <<6211, 6211>>, <<6277, 6278>>,
       <<6313, 6313>>, <<6432, 6434>>, <<6439, 6440>>, <<6450, 6450>>, <<6457, 6459>>, <<6679, 6680>>,
       <<6683, 6683>>, <<6742, 6742>>, <<6744, 6750>>, <<6752, 6752>>, <<6754, 6754>>, <<6757, 6764>>,
       <<6771, 6780>>, <<6783, 6783>>, <<6823, 6823>>, <<6832, 6862>>, <<6912, 6915>>, <<6964, 6964>>,
       <<6966, 6970>>, <<6972, 6972>>, <<6978, 6978>>, <<7019, 7027>>, <<7040, 7041>>, <<7074, 7077>>,
       <<7080, 7081>>, <<7083, 7085>>, <<7142, 7142>>, <<7144, 7145>>, <<7149, 7149>>, <<7151, 7153>>,
       <<7212, 7219>>, <<7222, 7223>>, <<7288, 7293>>, <<7376, 7378>>, <<7380, 7392>>, <<7394, 7400>>,
       <<7405, 7405>>, <<7412, 7412>>, <<7416, 7417>>, <<7468, 7530>>, <<7544, 7544>>, <<7579, 7679>>,
       <<8125, 8125>>, <<8127, 8129>>, <<8141, 8143>>, <<8157, 8159>>, <<8173, 8175>>, <<8189, 8190>>,
       <<8203, 8207>>, <<8216, 8217>>, <<8228, 8228>>, <<8231, 8231>>, <<8234, 8238>>, <<8288, 8292>>,
       <<8294, 8303>>, <<8305, 8305>>, <<8319, 8319>>, <<8336, 8348>>, <<8400, 8432>>, <<11388, 11389>>,
       <<11503, 11505>>, <<11631, 11631>>, <<11647, 11647>>, <<11744, 11775>>, <<11823, 11823>>, <<12293, 12293>>,
       <<12330, 12333>>, <<12337, 12341>>, <<12347, 12347>>, <<12441, 12446>>, <<12540, 12542>>, <<40981, 40981>>,
       <<42232, 42237>>, <<42508, 42508>>, <<42607, 42610>>, <<42612, 42621>>, <<42623, 42623>>, <<42652, 42655>>,
       <<42736, 42737>>, <<42752, 42785>>, <<42864, 42864>>, <<42888, 42890>>, <<42994, 42996>>, <<43000, 43001>>,
       <<43010, 43010>>, <<43014, 43014>>, <<43019, 43019>>, <<43045, 43046>>, <<43052, 43052>>, <<43204, 43205>>,
       <<43232, 43249>>, <<43263, 43263>>, <<43302, 43309>>, <<43335, 43345>>, <<43392, 43394>>, <<43443, 43443>>,
       <<43446, 43449>>, <<43452, 43453>>, <<43471, 43471>>, <<43493, 43494>>, <<43561, 43566>>, <<43569, 43570>>,
       <<43573, 43574>>, <<43587, 43587>>, <<43596, 43596>>, <<43632, 43632>>, <<43644, 43644>>, <<43696, 43696>>,
       <<43698, 43700>>, <<43703, 43704>>, <<43710, 43711>>, <<43713, 43713>>, <<43741, 43741>>, <<43756, 43757>>,
       <<43763, 43764>>, <<43766, 43766>>, <<43867, 43871>>, <<43881, 43883>>, <<44005, 44005>>, <<44008, 44008>>,
       <<44013, 44013>>, <<64286, 64286>>, <<64434, 64450>>, <<65024, 65039>>, <<65043, 65043>>, <<65056, 65071>>,
       <<65106, 65106>>, <<65109, 65109>>, <<65279, 65279>>, <<65287, 65287>>, <<65294, 65294>>, <<65306, 65306>>,
       <<65342, 65342>>, <<65344, 65344>>, <<65392, 65392>>, <<65438, 65439>>, <<65507, 65507>>, <<65529, 65531>>,
       <<66045, 66045>>, <<66272, 66272>>, <<66422, 66426>>, <<67456, 67461>>, <<67463, 67504>>, <<67506, 67514>>,
       <<68097, 68099>>, <<68101, 68102>>, <<68108, 68111>>, <<68152, 68154>>, <<68159, 68159>>, <<68325, 68326>>,
       <<68900, 68903>>, <<69291, 69292>>, <<69446, 69456>>, <<69506, 69509>>, <<69633, 69633>>, <<69688, 69702>>,
       <<69744, 69744>>, <<69747, 69748>>, <<69759, 69761>>, <<69811, 69814>>, <<69817, 69818>>, <<69821, 69821>>,
       <<69826, 69826>>, <<69837, 69837>>, <<69888, 69890>>, <<69927, 69931>>, <<69933, 69940>>, <<70003, 70003>>,
       <<70016, 70017>>, <<70070, 70078>>, <<70089, 70092>>, <<70095, 70095>>, <<70191, 70193>>, <<70196, 70196>>,
       <<70198, 70199>>, <<70206, 70206>>, <<70367, 70367>>, <<70371, 70378>>, <<70400, 70401>>, <<70459, 70460>>,
       <<70464, 70464>>, <<70502, 70508>>, <<70512, 70516>>, <<70712, 70719>>, <<70722, 70724>>, <<70726, 70726>>,
       <<70750, 70750>>, <<70835, 70840>>, <<70842, 70842>>, <<70847, 70848>>, <<70850, 70851>>, <<71090, 71093>>,
       <<71100, 71101>>, <<71103, 71104>>, <<71132, 71133>>, <<71219, 71226>>, <<71229, 71229>>, <<71231, 71232>>,
       <<71339, 71339>>, <<71341, 71341>>, <<71344, 71349>>, <<71351, 71351>>, <<71453, 71455>>, <<71458, 71461>>,
       <<71463, 71467>>, <<71727, 71735>>, <<71737, 71738>>, <<71995, 71996>>, <<71998, 71998>>, <<72003, 72003>>,
       <<72148, 72151>>, <<72154, 72155>>, <<72160, 72160>>, <<72193, 72202>>, <<72243, 72248>>, <<72251, 72254>>,
       <<72263, 72263>>, <<72273, 72278>>, <<72281, 72283>>, <<72330, 72342>>, <<72344, 72345>>, <<72752, 72758>>,
       <<72760, 72765>>, <<72767, 72767>>, <<72850, 72871>>, <<72874, 72880>>, <<72882, 72883>>, <<72885, 72886>>,
       <<73009, 73014>>, <<73018, 73018>>, <<73020, 73021>>, <<73023, 73029>>, <<73031, 73031>>, <<73104, 73105>>,
       <<73109, 73109>>, <<73111, 73111>>, <<73459, 73460>>, <<78896, 78904>>, <<92912, 92916>>, <<92976, 92982>>,
       <<92992, 92995>>, <<94031, 94031>>, <<94095, 94111>>, <<94176, 94177>>, <<94179, 94180>>, <<110576, 110579>>,
       <<110581, 110587>>, <<110589, 110590>>, <<113821, 113822>>, <<113824, 113827>>, <<118528, 118573>>, <<118576, 118598>>,
       <<119143, 119145>>, <<119155, 119170>>, <<119173, 119179>>, <<119210, 119213>>, <<119362, 119364>>, <<121344, 121398>>,
       <<121403, 121452>>, <<121461, 121461>>, <<121476, 121476>>, <<121499, 121503>>, <<121505, 121519>>, <<122880, 122886>>,
       <<122888, 122904>>, <<122907, 122913>>, <<122915, 122916>>, <<122918, 122922>>, <<123184, 123197>>, <<123566, 123566>>,
       <<123628, 123631>>, <<125136, 125142>>, <<125252, 125259>>, <<127995, 127999>>, <<917505, 917505>>, <<917536, 917631>>,
       <<917760, 917999>> >>

\* Cased characters among those that are not case-ignorable (the rule asks
\* for casedness only of a character it did not skip).
CASED ==
    << <<65, 90>>, <<97, 122>>, <<170, 170>>, <<181, 181>>, <<186, 186>>, <<192, 214>>,
       <<216, 246>>, <<248, 442>>, <<444, 447>>, <<452, 659>>, <<661, 687>>, <<880, 883>>,
       <<886, 887>>, <<891, 893>>, <<895, 895>>, <<902, 902>>, <<904, 906>>, <<908, 908>>,
       <<910, 929>>, <<931, 1013>>, <<1015, 1153>>, <<1162, 1327>>, <<1329, 1366>>, <<1376, 1416>>,
       <<4256, 4293>>, <<4295, 4295>>, <<4301, 4301>>, <<4304, 4346>>, <<4349, 4351>>, <<5024, 5109>>,
       <<5112, 5117>>, <<7296, 7304>>, <<7312, 7354>>, <<7357, 7359>>, <<7424, 7467>>, <<7531, 7543>>,
       <<7545, 7578>>, <<7680, 7957>>, <<7960, 7965>>, <<7968, 8005>>, <<8008, 8013>>, <<8016, 8023>>,
       <<8025, 8025>>, <<8027, 8027>>, <<8029, 8029>>, <<8031, 8061>>, <<8064, 8116>>, <<8118, 8124>>,
       <<8126, 8126>>, <<8130, 8132>>, <<8134, 8140>>, <<8144, 8147>>, <<8150, 8155>>, <<8160, 8172>>,
       <<8178, 8180>>, <<8182, 8188>>, <<8450, 8450>>, <<8455, 8455>>, <<8458, 8467>>, <<8469, 8469>>,
       <<8473, 8477>>, <<8484, 8484>>, <<8486, 8486>>, <<8488, 8488>>, <<8490, 8493>>, <<8495, 8500>>,
       <<8505, 8505>>, <<8508, 8511>>, <<8517, 8521>>, <<8526, 8526>>, <<8544, 8575>>, <<8579, 8580>>,
       <<9398, 9449>>, <<11264, 11387>>, <<11390, 11492>>, <<11499, 11502>>, <<11506, 11507>>, <<11520, 11557>>,
       <<11559, 11559>>, <<11565, 11565>>, <<42560, 42605>>, <<42624, 42651>>, <<42786, 42863>>, <<42865, 42887>>,
       <<42891, 42894>>, <<42896, 42954>>, <<42960, 42961>>, <<42963, 42963>>, <<42965, 42969>>, <<42997, 42998>>,
       <<43002, 43002>>, <<43824, 43866>>, <<43872, 43880>>, <<43888, 43967>>, <<64256, 64262>>, <<64275, 64279>>,
       <<65313, 65338>>, <<65345, 65370>>, <<66560, 66639>>, <<66736, 66771>>, <<66776, 66811>>, <<66928, 66938>>,
       <<66940, 66954>>, <<66956, 66962>>, <<66964, 66965>>, <<66967, 66977>>, <<66979, 66993>>, <<66995, 67001>>,
       <<67003, 67004>>, <<68736, 68786>>, <<68800, 68850>>, <<71840, 71903>>, <<93760, 93823>>, <<119808, 119892>>,
       <<119894, 119964>>, <<119966, 119967>>, <<119970, 119970>>, <<119973, 119974>>, <<119977, 119980>>, <<119982, 119993>>,
       <<119995, 119995>>, <<119997, 120003>>, <<120005, 120069>>, <<120071, 120074>>, <<120077, 120084>>, <<120086, 120092>>,
       <<120094, 120121>>, <<120123, 120126>>, <<120128, 120132>>, <<120134, 120134>>, <<120138, 120144>>, <<120146, 120485>>,
       <<120488, 120512>>, <<120514, 120538>>, <<120540, 120570>>, <<120572, 120596>>, <<120598, 120628>>, <<120630, 120654>>,
       <<120656, 120686>>, <<120688, 120712>>, <<120714, 120744>>, <<120746, 120770>>, <<120772, 120779>>, <<122624, 122633>>,
       <<122635, 122654>>, <<125184, 125251>>, <<127280, 127305>>, <<127312, 127337>>, <<127344, 127369>> >>

\* html._invalid_charrefs: <<number, replacement code point>>.
INVALID_CHARREFS ==
    << <<0, 65533>>, <<13, 13>>, <<128, 8364>>, <<129, 129>>, <<130, 8218>>,
       <<131, 402>>, <<132, 8222>>, <<133, 8230>>, <<134, 8224>>, <<135, 8225>>,
       <<136, 710>>, <<137, 8240>>, <<138, 352>>, <<139, 8249>>, <<140, 338>>,
       <<141, 141>>, <<142, 381>>, <<143, 143>>, <<144, 144>>, <<145, 8216>>,
       <<146, 8217>>, <<147, 8220>>, <<148, 8221>>, <<149, 8226>>, <<150, 8211>>,
       <<151, 8212>>, <<152, 732>>, <<153, 8482>>, <<154, 353>>, <<155, 8250>>,
       <<156, 339>>, <<157, 157>>, <<158, 382>>, <<159, 376>> >>

\* html._invalid_codepoints
INVALID_CODEPOINTS ==
    << <<1, 8>>, <<11, 11>>, <<14, 31>>, <<127, 159>>, <<64976, 65007>>, <<65534, 65535>>,
       <<131070, 131071>>, <<196606, 196607>>, <<262142, 262143>>, <<327678, 327679>>, <<393214, 393215>>, <<458750, 458751>>,
       <<524286, 524287>>, <<589822, 589823>>, <<655358, 655359>>, <<720894, 720895>>, <<786430, 786431>>, <<851966, 851967>>,
       <<917502, 917503>>, <<983038, 983039>>, <<1048574, 1048575>>, <<1114110, 1114111>> >>

InRanges(c, table) == \E i \in DOMAIN table : table[i][1] <= c /\ c <= table[i][2]

\* \d and \w of the str pattern of ContestHTMLParser (Unicode matching)
IsDigit(c) == \E z \in DECIMAL_ZEROS : z <= c /\ c <= z + 9
IsWord(c)  ==
    IF c < 128 THEN c \in 48..57 \/ c \in 65..90 \/ c \in 97..122 \/ c = 95
    ELSE InRanges(c, UNICODE_WORD)

\* c moved by the entry of the lower-case table that maps it, if any
Shifted(c, entries) ==
    IF entries = {} THEN <<c>> ELSE <<c + (CHOOSE e \in entries : TRUE)[4]>>

\* str.lower() of one character that is not a capital sigma; U+0130 is the
\* one character whose lower case is two code points.
LowerFull(c) ==
    IF c = 304 THEN <<105, 775>>
    ELSE IF c < 128 THEN (IF c \in 65..90 THEN <<c + 32>> ELSE <<c>>)
    ELSE Shifted(c, {e \in Range(UNICODE_LOWER) :
                        e[1] <= c /\ c <= e[2] /\ (c - e[1]) % e[3] = 0})

\* The indices of str whose character is not case-ignorable
NotIgnorable(str) == {j \in DOMAIN str : ~InRanges(str[j], CASE_IGNORABLE)}

\* The capital sigma at 1-based i of str is in final position: the nearest
\* character before it that is not case-ignorable is cased, and the nearest
\* such character after it, if any, is not.  b and a hold the index of
\* that character before and after the sigma, when there is one.
FinalSigmaBetween(str, b, a) ==
    /\ b # {}
    /\ \A j \in b \cup a : InRanges(str[j], CASED) <=> j \in b
FinalSigmaAmong(i, ni, str) ==
    FinalSigmaBetween(str, {j \in ni : j < i /\ \A k \in ni : k < i => k <= j},
                           {j \in ni : j > i /\ \A k \in ni : k > i => j <= k})
FinalSigma(str, i) == FinalSigmaAmong(i, NotIgnorable(str), str)

\* ''.join(parts): the parts one after another.
RECURSIVE Join(_)
Join(parts) ==
    IF parts = <<>> THEN <<>>
    ELSE IF Len(parts) = 1 THEN parts[1]
    ELSE LET half == Len(parts) \div 2
         IN  Join(SubSeq(parts, 1, half)) \o Join(SubSeq(parts, half + 1, Len(parts)))

\* str.lower(): every cased character is lowered, one by one; a capital
\* sigma becomes the final or the medial small sigma.
lower(str) ==
    Join([i \in DOMAIN str |->
            IF str[i] = 931
            THEN (IF FinalSigma(str, i) THEN <<962>> ELSE <<963>>)
            ELSE LowerFull(str[i])])

(***************************************************************************)
(* ProblemHTMLParser.  The object is a record; Node objects live in the    *)
(* heap `nodes` and are referred to by their index (object identity), as   *)
(* `stack`, `children` and `sample_input_nodes` hold references in Python. *)
(***************************************************************************)
Node(tag, attrs) == [tag |-> tag, attrs |-> attrs, children |-> <<>>, data |-> <<>>]

ProblemHTMLParser ==
    [nodes |-> <<>>, stack |-> <<>>, sample_input_nodes |-> <<>>, recording |-> FALSE]

Top(p) == p.stack[Len(p.stack)]

\* What a handler leaves behind: the parser and the exception it raised,
\* with the exception's args (the message and what is formatted into it).
Return(p)         == [self |-> p, exc |-> "None", args |-> <<>>]
Raise(p, e, args) == [self |-> p, exc |-> e, args |-> args]

\* ValueError of int() for a literal of too many digits
MSG_limit == "Exceeds the limit ({} digits) for integer string conversion: value has {} digits; use sys.set_int_max_str_digits() to increase the limit"
\* sys.get_int_max_str_digits(), the default of the interpreter
MAX_STR_DIGITS == 4300
\* AttributeError of None.find
MSG_find == "'NoneType' object has no attribute 'find'"

\* The value HTMLParser gives an attribute written without a value
\* (<div class>): None, which is no str.
None == <<-1>>

\* Mutants of handle_starttag: a br is not pushed; a br is attached like
\* any other child; recording is not set.
handle_starttag_norecording(p, tag, attrs0) ==
    LET attrs == Dict(attrs0)
    IN  IF tag = "div" /\ Get(attrs, "class", <<>>) = None
        THEN Raise(p, "AttributeError", <<MSG_find>>)
        ELSE LET sample_input_div == tag = "div" /\ Find(Get(attrs, "class", <<>>), STR_sample) # -1
             IN  Return(IF p.recording \/ sample_input_div
                        THEN LET node == Len(p.nodes) + 1
                                 heap == Append(p.nodes, Node(tag, attrs))
                                 heap2 ==
                                     IF p.stack # <<>>
                                     THEN IF tag = "br"
                                          THEN [heap EXCEPT ![Top(p)].data = @ \o NL]
                                          ELSE [heap EXCEPT ![Top(p)].children = Append(@, node)]
                                     ELSE heap
                             IN  [p EXCEPT !.nodes = heap2,
                                           !.stack = Append(p.stack, node)]
                        ELSE p)

handle_starttag_brnopush(p, tag, attrs0) ==
    LET attrs == Dict(attrs0)
    IN  IF tag = "div" /\ Get(attrs, "class", <<>>) = None
        THEN Raise(p, "AttributeError", <<MSG_find>>)
        ELSE LET sample_input_div == tag = "div" /\ Find(Get(attrs, "class", <<>>), STR_sample) # -1
             IN  Return(IF p.recording \/ sample_input_div
                        THEN LET node == Len(p.nodes) + 1
                                 heap == Append(p.nodes, Node(tag, attrs))
                             IN  IF p.stack # <<>> /\ tag = "br"
                                 THEN [p EXCEPT !.nodes = [heap EXCEPT ![Top(p)].data = @ \o NL]]
                                 ELSE [p EXCEPT !.recording = TRUE,
                                                !.nodes = IF p.stack # <<>>
                                                          THEN [heap EXCEPT ![Top(p)].children = Append(@, node)]
                                                          ELSE heap,
                                                !.stack = Append(p.stack, node)]
                        ELSE p)

handle_starttag_brchild(p, tag, attrs0) ==
    LET attrs == Dict(attrs0)
    IN  IF tag = "div" /\ Get(attrs, "class", <<>>) = None
        THEN Raise(p, "AttributeError", <<MSG_find>>)
        ELSE LET sample_input_div == tag = "div" /\ Find(Get(attrs, "class", <<>>), STR_sample) # -1
             IN  Return(IF p.recording \/ sample_input_div
                        THEN LET node == Len(p.nodes) + 1
                                 heap == Append(p.nodes, Node(tag, attrs))
                                 heap2 ==
                                     IF p.stack # <<>>
                                     THEN [heap EXCEPT ![Top(p)].children = Append(@, node)]
                                     ELSE heap
                             IN  [p EXCEPT !.recording = TRUE,
                                           !.nodes = heap2,
                                           !.stack = Append(p.stack, node)]
                        ELSE p)

handle_starttag(p, tag, attrs0) ==
    LET attrs == Dict(attrs0)
    IN  IF tag = "div" /\ Get(attrs, "class", <<>>) = None
        THEN Raise(p, "AttributeError", <<MSG_find>>)
        ELSE LET sample_input_div == tag = "div" /\ Find(Get(attrs, "class", <<>>), STR_sample) # -1
             IN  Return(IF p.recording \/ sample_input_div
                        THEN LET node == Len(p.nodes) + 1
                                 heap == Append(p.nodes, Node(tag, attrs))
                                 heap2 ==
                                     IF p.stack # <<>>
                                     THEN IF tag = "br"
                                          THEN [heap EXCEPT ![Top(p)].data = @ \o NL]
                                          ELSE [heap EXCEPT ![Top(p)].children = Append(@, node)]
                                     ELSE heap
                             IN  [p EXCEPT !.recording = TRUE,
                                           !.nodes = heap2,
                                           !.stack = Append(p.stack, node)]
                        ELSE p)

\* Mutant of handle_endtag: only an end tag of the top node's name pops.
handle_endtag_matching(p, tag) ==
    IF p.recording /\ p.nodes[Top(p)].tag = tag
    THEN LET node == Top(p)
             rest == SubSeq(p.stack, 1, Len(p.stack) - 1)
         IN  IF rest = <<>>
             THEN [p EXCEPT !.stack = rest,
                            !.sample_input_nodes = Append(@, node),
                            !.recording = FALSE]
             ELSE [p EXCEPT !.stack = rest]
    ELSE p

handle_endtag(p, tag) ==
    IF p.recording
    THEN LET node == Top(p)
             rest == SubSeq(p.stack, 1, Len(p.stack) - 1)
         IN  IF rest = <<>>
             THEN [p EXCEPT !.stack = rest,
                            !.sample_input_nodes = Append(@, node),
                            !.recording = FALSE]
             ELSE [p EXCEPT !.stack = rest]
    ELSE p

\* Mutant of handle_data: the text goes to the root of the open region.
handle_data_root(p, data) ==
    IF p.recording
    THEN [p EXCEPT !.nodes[p.stack[1]].data = @ \o data]
    ELSE p

handle_data(p, data) ==
    IF p.recording
    THEN [p EXCEPT !.nodes[Top(p)].data = @ \o data]
    ELSE p

\* html.entities.name2codepoint, restricted to the names the model feeds.
name2codepoint == [lt |-> 60, gt |-> 62, amp |-> 38, quot |-> 34]

\* chr(i): the argument is converted to a C int first (OverflowError
\* outside -2**31..2**31-1, see AsInt_ok) and must lie in range(0x110000)
\* (ValueError otherwise, see handle_charref).
chr(i) == <<i>>

handle_entityref(p, name) ==
    IF name \notin DOMAIN name2codepoint
    THEN Raise(p, "AssertionError", <<"Unrecognized HTML entity &{};", name>>)
    ELSE Return(handle_data(p, chr(name2codepoint[name])))

\* The value of one digit character in int(); -1 when it is not a digit.
DigitVal(c) ==
    IF c \in 48..57 THEN c - 48
    ELSE IF c \in 97..122 THEN c - 87
    ELSE IF c \in 65..90 THEN c - 55
    ELSE -1

\* int() first rewrites the str to ASCII: a character beyond ASCII becomes
\* a blank when it is white space, its ASCII digit when it is a decimal
\* digit, and '?' (never part of a literal) otherwise.
ToASCII(c) ==
    IF c < 127 THEN c
    ELSE IF InRanges(c, UNICODE_SPACE) THEN 32
    ELSE IF IsDigit(c)
    THEN 48 + c - (CHOOSE z \in DECIMAL_ZEROS : z <= c /\ c <= z + 9)
    ELSE 63

NotUnderscore(c) == c # 95

\* The 1-based index of the first character of a at or after i that is not
\* white space, and that is neither a digit of the base nor an underscore.
SkipSpace(a, i) ==
    CHOOSE j \in i..(Len(a) + 1) :
        /\ j = Len(a) + 1 \/ ~(a[j] \in 9..13 \/ a[j] = 32)
        /\ \A k \in i..(j - 1) : a[k] \in 9..13 \/ a[k] = 32

ScanDigits(a, i, base) ==
    CHOOSE j \in i..(Len(a) + 1) :
        /\ j = Len(a) + 1 \/ ~(a[j] = 95 \/ DigitVal(a[j]) \in 0..(base - 1))
        /\ \A k \in i..(j - 1) : a[k] = 95 \/ DigitVal(a[k]) \in 0..(base - 1)

\* a[i] of the C string a, which ends in a NUL
At(a, i) == IF i <= Len(a) THEN a[i] ELSE 0

\* The index after an optional sign at i, and after an optional 0x or 0X
\* of base 16 and the one underscore that may follow it.
AfterSign(a, i) == IF At(a, i) \in {43, 45} THEN i + 1 ELSE i
AfterPrefix(a, i, base) ==
    IF base = 16 /\ At(a, i) = 48 /\ At(a, i + 1) \in {120, 88}
    THEN (IF At(a, i + 2) = 95 THEN i + 3 ELSE i + 2)
    ELSE i

\* A run of digits and underscores is well formed: it is not empty, and
\* underscores stand singly between digits.
WellFormed(run) ==
    /\ run # <<>>
    /\ run[1] # 95
    /\ run[Len(run)] # 95
    /\ \A k \in 1..(Len(run) - 1) : run[k] # 95 \/ run[k + 1] # 95

\* How int(s, base) reads s, for base 10 and 16: white space, an optional
\* sign, for base 16 an optional 0x or 0X and one optional underscore,
\* digits of the base with single underscores between them, white space.
\* ok: s is such a literal; neg: the sign is '-'; digits: the digits.
\* over: the literal is of base 10 and has more digits than
\* sys.get_int_max_str_digits() allows, which int() finds once the run of
\* digits is read and before it looks at what follows the run.
\* i0 is where the sign may stand, i2 where the run of digits begins and
\* i3 where it ends.
LiteralRead(a, base, i0, run, digits, i3) ==
    [ok     |-> /\ WellFormed(run)
                /\ ~(base = 10 /\ Len(digits) > MAX_STR_DIGITS)
                /\ SkipSpace(a, i3) = Len(a) + 1,
     over   |-> WellFormed(run) /\ base = 10 /\ Len(digits) > MAX_STR_DIGITS,
     neg    |-> At(a, i0) = 45,
     digits |-> digits]
LiteralRun(a, base, i0, run, i3) ==
    LiteralRead(a, base, i0, run, SelectSeq(run, NotUnderscore), i3)
LiteralFrom(a, base, i0, i2) ==
    LiteralRun(a, base, i0, SubSeq(a, i2, ScanDigits(a, i2, base) - 1),
               ScanDigits(a, i2, base))
LiteralAt(a, base, i0) == LiteralFrom(a, base, i0, AfterPrefix(a, AfterSign(a, i0), base))
LiteralASCII(a, base) == LiteralAt(a, base, SkipSpace(a, 1))
IntLiteral(s, base) == LiteralASCII([i \in DOMAIN s |-> ToASCII(s[i])], base)

\* int(s, base) raises ValueError unless s is a literal of the base with no
\* more digits than the limit, and int_error is what it raises with: the
\* limit and the number of digits, or the base and the str.
int_ok(s, base) == IntLiteral(s, base).ok
int_limit(digits) == <<MSG_limit, MAX_STR_DIGITS, Len(digits)>>
int_error(s, base, literal) ==
    IF literal.over THEN int_limit(literal.digits) ELSE <<"invalid literal for int() with base {}: {!r}", base, s>>

\* The largest C int
INT_MAX == 2147483647

\* The digits counted downward from zero, which reaches INT_MIN: fits says
\* that the number is not below INT_MIN, and v is then its value.
DownStep(r, d, base) ==
    IF r.fits /\ r.v >= -(((INT_MAX - (base + d - 1)) \div base) + 1)
    THEN [fits |-> TRUE, v |-> r.v * base - d]
    ELSE [fits |-> FALSE, v |-> (-INT_MAX) - 1]
RECURSIVE DownwardFrom(_, _)
DownwardFrom(digits, base) ==
    IF digits = <<>> THEN [fits |-> TRUE, v |-> 0]
    ELSE DownStep(DownwardFrom(SubSeq(digits, 1, Len(digits) - 1), base),
                  DigitVal(digits[Len(digits)]), base)
\* Leading zeros add nothing, and a number of more than ten digits after
\* them is beyond a C int in either base.
Downward(digits, base) ==
    LET zeros == (CHOOSE j \in 1..(Len(digits) + 1) :
                      /\ j = Len(digits) + 1 \/ digits[j] # 48
                      /\ \A k \in 1..(j - 1) : digits[k] = 48) - 1
    IN  IF Len(digits) - zeros > 10 THEN [fits |-> FALSE, v |-> (-INT_MAX) - 1]
        ELSE DownwardFrom(SubSeq(digits, zeros + 1, Len(digits)), base)

\* The int converts to a C int, as chr() demands of its argument.
FitsCInt(neg, r) == r.fits /\ (neg \/ r.v >= -INT_MAX)
AsInt_ok(s, base) ==
    FitsCInt(IntLiteral(s, base).neg, Downward(IntLiteral(s, base).digits, base))

\* int(s, base) where it converts to a C int; an int beyond that range,
\* which a Python int holds and chr() refuses, is given as the nearest end
\* of the range.
Signed(neg, r) ==
    IF neg THEN r.v
    ELSE IF r.fits /\ r.v >= -INT_MAX THEN -r.v
    ELSE INT_MAX
int(s, base) ==
    Signed(IntLiteral(s, base).neg, Downward(IntLiteral(s, base).digits, base))

handle_charref(p, name) ==
    IF name = <<>> THEN Raise(p, "IndexError", <<"string index out of range">>)   \* name[0]
    ELSE
    LET hex    == name[1] = 120                  \* name[0] == 'x'
        digits == IF hex THEN SliceFrom(name, 1) ELSE name
        base   == IF hex THEN 16 ELSE 10
    IN  IF ~int_ok(digits, base)
        THEN Raise(p, "ValueError", int_error(digits, base, IntLiteral(digits, base)))
        ELSE IF ~AsInt_ok(digits, base) THEN Raise(p, "OverflowError", <<"Python int too large to convert to C int">>)
        ELSE IF int(digits, base) \notin 0..1114111 THEN Raise(p, "ValueError", <<"chr() arg not in range(0x110000)">>)
        ELSE Return(handle_data(p, chr(int(digits, base))))

\* Mutant of walkNodes: the children of a pre node are walked too.
RECURSIVE walkNodes_intopre(_, _, _)
walkNodes_intopre(p, node, output_pre_datas) ==
    LET RECURSIVE each(_, _)
        each(children, out) ==
            IF children = <<>> THEN out
            ELSE each(Tail(children), walkNodes_intopre(p, Head(children), out))
    IN  each(p.nodes[node].children,
             IF p.nodes[node].tag = "pre"
             THEN Append(output_pre_datas, p.nodes[node].data)
             ELSE output_pre_datas)

\* walkNodes appends to the caller's list; here it returns the list.
RECURSIVE walkNodes(_, _, _)
walkNodes(p, node, output_pre_datas) ==
    LET RECURSIVE each(_, _)
        each(children, out) ==
            IF children = <<>> THEN out
            ELSE each(Tail(children), walkNodes(p, Head(children), out))
    IN  IF p.nodes[node].tag = "pre"
        THEN Append(output_pre_datas, p.nodes[node].data)
        ELSE each(p.nodes[node].children, output_pre_datas)

\* What a call leaves behind: its value, or the exception and its args (a
\* bare assert has none).
Returned(v)         == [exc |-> "None", value |-> v, args |-> <<>>]
RaisedWith(e, args) == [exc |-> e, value |-> <<>>, args |-> args]
Raised(e)           == RaisedWith(e, <<>>)

\* Mutants of getExamples: the pair is built the wrong way round; the
\* parity of the blocks is not asserted; the number of roots is not
\* asserted; a region that is still open is harvested.
getExamples_openregion(p) ==
    LET roots == IF p.sample_input_nodes = <<>> /\ p.stack # <<>>
                 THEN <<p.stack[1]>> ELSE p.sample_input_nodes
    IN  IF roots = <<>> THEN Returned(<<>>)
        ELSE IF Len(roots) # 1 THEN Raised("AssertionError")
        ELSE LET pre_datas == walkNodes(p, roots[1], <<>>)
             IN  IF Len(pre_datas) % 2 # 0 THEN Raised("AssertionError")
                 ELSE Returned([k \in 1..(Len(pre_datas) \div 2) |->
                                   <<pre_datas[2 * k - 1], pre_datas[2 * k]>>])

getExamples_swapped(p) ==
    IF p.sample_input_nodes = <<>> THEN Returned(<<>>)
    ELSE IF Len(p.sample_input_nodes) # 1 THEN Raised("AssertionError")
    ELSE LET pre_datas == walkNodes(p, p.sample_input_nodes[1], <<>>)
         IN  IF Len(pre_datas) % 2 # 0 THEN Raised("AssertionError")
             ELSE Returned([k \in 1..(Len(pre_datas) \div 2) |->
                               <<pre_datas[2 * k], pre_datas[2 * k - 1]>>])

getExamples_noparity(p) ==
    IF p.sample_input_nodes = <<>> THEN Returned(<<>>)
    ELSE IF Len(p.sample_input_nodes) # 1 THEN Raised("AssertionError")
    ELSE LET pre_datas == walkNodes(p, p.sample_input_nodes[1], <<>>)
         IN  Returned([k \in 1..(Len(pre_datas) \div 2) |->
                          <<pre_datas[2 * k - 1], pre_datas[2 * k]>>])

getExamples_firstroot(p) ==
    IF p.sample_input_nodes = <<>> THEN Returned(<<>>)
    ELSE LET pre_datas == walkNodes(p, p.sample_input_nodes[1], <<>>)
         IN  IF Len(pre_datas) % 2 # 0 THEN Raised("AssertionError")
             ELSE Returned([k \in 1..(Len(pre_datas) \div 2) |->
                               <<pre_datas[2 * k - 1], pre_datas[2 * k]>>])

getExamples(p) ==
    IF p.sample_input_nodes = <<>> THEN Returned(<<>>)
    ELSE IF Len(p.sample_input_nodes) # 1 THEN Raised("AssertionError")
    ELSE LET pre_datas == walkNodes(p, p.sample_input_nodes[1], <<>>)
         IN  IF Len(pre_datas) % 2 # 0 THEN Raised("AssertionError")
             ELSE Returned([k \in 1..(Len(pre_datas) \div 2) |->
                               <<pre_datas[2 * k - 1], pre_datas[2 * k]>>])

(***************************************************************************)
(* Spec: the tokens HTMLParser.feed hands to one ProblemHTMLParser, then   *)
(* getExamples() as download_problem calls it.                             *)
(***************************************************************************)
Tags == {"div", "pre", "br"}

\* (tag, attrs) of the start tags fed anywhere in the stream.
StartTagPool ==
    { [tag |-> "div", attrs |-> << <<"class", STR_sample_test>> >>],
      [tag |-> "div", attrs |-> << <<"class", None>> >>],
      [tag |-> "pre", attrs |-> <<>>],
      [tag |-> "br",  attrs |-> <<>>] }

\* Start tags fed only between sample regions: the shapes of tag that must
\* not open a region.
OutsidePool ==
    { [tag |-> "div", attrs |-> << <<"class", STR_input>> >>],
      [tag |-> "div", attrs |-> <<>>],
      [tag |-> "pre", attrs |-> << <<"class", STR_sample>> >>],
      [tag |-> "pre", attrs |-> << <<"class", None>> >>],
      [tag |-> "div", attrs |-> << <<"class", STR_sample>>, <<"class", STR_input>> >>] }

StartTags(p) == IF p.recording THEN StartTagPool ELSE StartTagPool \cup OutsidePool

TextPool == {<<60>>}    \* "<"

\* Entity names not in html.entities.name2codepoint; "lt" is in it.
UnknownEntities == {"bogus"}

\* Character references int()/chr() accept ("60", "x3c") and reject
\* ("X3C": no lower-case x, not decimal; "x110000": beyond chr's range;
\* "2147483648": beyond the C int chr() takes).
GoodCharRefs == { <<54, 48>>, <<120, 51, 99>> }
BadCharRefs  == { <<88, 51, 67>>, <<120, 49, 49, 48, 48, 48, 48>>,
                  <<50, 49, 52, 55, 52, 56, 51, 54, 52, 56>> }


RECURSIVE SumLen(_, _)
SumLen(nodes, n) == IF n = 0 THEN 0 ELSE SumLen(nodes, n - 1) + Len(nodes[n].data)
DataLen(p) == SumLen(p.nodes, Len(p.nodes))

NoResult == Returned(<<>>)

\* The variables of a specification that is not running.
IdleParser == parser = ProblemHTMLParser /\ pc = "idle" /\ result = NoResult /\ seen = {}
IdleLinks  == cparser = [problems |-> {}] /\ cpc = "idle" /\ cresult = <<>> /\ cfed = {}
IdleMain ==
    /\ mpc = "idle" /\ contest_html = <<>> /\ problems = <<>> /\ tasks = <<>>
    /\ queue = <<>> /\ nthreads = 0 /\ idle_sem = 0 /\ dirs = {} /\ files = <<>>
    /\ stdout = {} /\ stderr = {} /\ exit_code = -1 /\ convert_charrefs = TRUE

Init ==
    /\ IdleLinks
    /\ IdleMain
    /\ parser = ProblemHTMLParser
    /\ pc = "feed"
    /\ result = NoResult
    /\ seen = {}

\* A handler that raises ends feed(): download_problem re-raises.
Handled(r) ==
    /\ parser' = r.self
    /\ IF r.exc = "None"
       THEN UNCHANGED <<pc, result>>
       ELSE pc' = "raised" /\ result' = RaisedWith(r.exc, r.args)

StartTag ==
    /\ pc = "feed"
    /\ Len(parser.nodes) < MaxNodes
    /\ \E t \in StartTags(parser) :
          /\ Handled(handle_starttag(parser, t.tag, t.attrs))
          /\ seen' = IF t = [tag |-> "div", attrs |-> << <<"class", STR_sample_test>> >>] THEN seen \cup {"sample_div"} ELSE seen
    /\ UNCHANGED <<lvars, mvars>>

EndTag ==
    /\ pc = "feed"
    /\ \E tag \in Tags : parser' = handle_endtag(parser, tag)
    /\ UNCHANGED <<pc, result, seen, lvars, mvars>>

Text ==
    /\ pc = "feed"
    /\ DataLen(parser) < MaxData
    /\ \E data \in TextPool : parser' = handle_data(parser, data)
    /\ UNCHANGED <<pc, result, seen, lvars, mvars>>

EntityRef ==
    /\ pc = "feed"
    /\ DataLen(parser) < MaxData
    /\ \E name \in {"lt"} \cup UnknownEntities :
          /\ Handled(handle_entityref(parser, name))
          /\ seen' = IF name \in UnknownEntities THEN seen \cup {"bad_ref"} ELSE seen
    /\ UNCHANGED <<lvars, mvars>>

CharRef ==
    /\ pc = "feed"
    /\ DataLen(parser) < MaxData
    /\ \E name \in GoodCharRefs \cup BadCharRefs :
          /\ Handled(handle_charref(parser, name))
          /\ seen' = IF name \in BadCharRefs THEN seen \cup {"bad_ref"} ELSE seen
    /\ UNCHANGED <<lvars, mvars>>

\* feed() returned: download_problem calls getExamples().
GetExamples ==
    /\ pc = "feed"
    /\ pc' = "done"
    /\ result' = getExamples(parser)
    /\ UNCHANGED <<parser, seen, lvars, mvars>>

Next == StartTag \/ EndTag \/ Text \/ EntityRef \/ CharRef \/ GetExamples

Spec == Init /\ [][Next]_vars

(***************************************************************************)
(* Vocabulary of the properties of Spec.  The tree of a root is read off   *)
(* the children lists; document order is the order in which the start tags *)
(* created the nodes, i.e. ascending node index.                           *)
(***************************************************************************)
Ids(p) == 1..Len(p.nodes)
IsChild(p, n) == \E m \in Ids(p) : n \in Range(p.nodes[m].children)
Parent(p, n) == CHOOSE m \in Ids(p) : n \in Range(p.nodes[m].children)

RECURSIVE InTree(_, _, _)
InTree(p, root, n) ==
    \/ n = root
    \/ IsChild(p, n) /\ InTree(p, root, Parent(p, n))

RECURSIVE HasPreAncestor(_, _)
HasPreAncestor(p, n) ==
    /\ IsChild(p, n)
    /\ \/ p.nodes[Parent(p, n)].tag = "pre"
       \/ HasPreAncestor(p, Parent(p, n))

RECURSIVE Ascending(_)
Ascending(S) ==
    IF S = {} THEN <<>>
    ELSE LET m == CHOOSE x \in S : \A y \in S : x <= y
         IN  <<m>> \o Ascending(S \ {m})

\* Every pre node of the root's tree, in document order.
AllPres(p, root) ==
    Ascending({n \in Ids(p) : InTree(p, root, n) /\ p.nodes[n].tag = "pre"})

\* The pre nodes of the root's tree that lie in no other pre node.
OuterPres(p, root) ==
    Ascending({n \in Ids(p) : /\ InTree(p, root, n)
                              /\ p.nodes[n].tag = "pre"
                              /\ ~HasPreAncestor(p, n)})

\* Example i (0-based) is (text of block 2i, text of block 2i+1).
PairedTexts(p, pres) ==
    [k \in 1..(Len(pres) \div 2) |->
        <<p.nodes[pres[2 * k - 1]].data, p.nodes[pres[2 * k]].data>>]

\* A region root: a node that was pushed on the empty stack.  Every other
\* node is either some node's child or a br.
RegionRoots(p) == {n \in Ids(p) : ~IsChild(p, n) /\ p.nodes[n].tag # "br"}
ClosedRoots(p) == {n \in RegionRoots(p) : n \notin Range(p.stack)}

\* The step created a Node: a start tag was processed while recording or
\* opened a region.
Created == Len(parser'.nodes) = Len(parser.nodes) + 1
NewNode == Len(parser'.nodes)
CreatedBr == Created /\ parser'.nodes[NewNode].tag = "br"
HasSampleClass(n) ==
    /\ "class" \in DOMAIN parser'.nodes[n].attrs
    /\ \E i \in 1..Len(parser'.nodes[n].attrs["class"]) :
          SubSeq(parser'.nodes[n].attrs["class"], i, i + 5) = STR_sample

\* C1 as stated: with one completed root whose tree holds 2k pre blocks,
\* getExamples returns the k pairs (block 2i, block 2i+1) of all the pre
\* blocks of the tree in document order.
C1_AsStated ==
    (/\ pc = "done"
     /\ Len(parser.sample_input_nodes) = 1
     /\ Len(AllPres(parser, parser.sample_input_nodes[1])) % 2 = 0)
    => result = Returned(PairedTexts(parser, AllPres(parser, parser.sample_input_nodes[1])))

C1_Pairs ==
    (/\ pc = "done"
     /\ Len(parser.sample_input_nodes) = 1
     /\ Len(OuterPres(parser, parser.sample_input_nodes[1])) % 2 = 0)
    => result = Returned(PairedTexts(parser, OuterPres(parser, parser.sample_input_nodes[1])))

C1_Nested ==
    (parser.recording /\ Created /\ parser'.nodes[NewNode].tag = "div" /\ HasSampleClass(NewNode))
    => /\ parser'.sample_input_nodes = parser.sample_input_nodes
       /\ parser'.nodes[Top(parser)].children = Append(parser.nodes[Top(parser)].children, NewNode)

\* C1 (amended): with exactly one completed root whose tree holds 2k pre
\* blocks that lie in no other pre block, getExamples returns exactly the k
\* pairs (text of block 2i, text of block 2i+1) of those blocks in document
\* order; a sample-class div start tag processed while recording adds an
\* ordinary child to the top node and no root.
C1_Examples == [](C1_Pairs) /\ [][C1_Nested]_vars

\* Two examples were returned, the first with distinct input and output.
C1_Witness ==
    /\ pc = "done"
    /\ result.exc = "None"
    /\ Len(result.value) = 2
    /\ result.value[1][1] # result.value[1][2]

\* C2: one completed root with an odd number of collected pre blocks makes
\* getExamples raise AssertionError; no list is returned.
C2_OddFails ==
    (/\ pc = "done"
     /\ Len(parser.sample_input_nodes) = 1
     /\ Len(OuterPres(parser, parser.sample_input_nodes[1])) % 2 = 1)
    => result = Raised("AssertionError")

C2_Witness ==
    /\ pc = "done"
    /\ Len(parser.sample_input_nodes) = 1
    /\ Len(OuterPres(parser, parser.sample_input_nodes[1])) = 3
    /\ result.exc = "AssertionError"

\* C3: two or more top-level sample containers that each closed make
\* getExamples raise AssertionError, whatever they contain.
C3_MultipleRootsFail ==
    (pc = "done" /\ Cardinality(ClosedRoots(parser)) >= 2)
    => result = Raised("AssertionError")

\* Two closed regions, the first with a well-formed pair of pre blocks.
C3_Witness ==
    /\ pc = "done"
    /\ Cardinality(ClosedRoots(parser)) = 2
    /\ Len(parser.sample_input_nodes) = 2
    /\ Len(OuterPres(parser, parser.sample_input_nodes[1])) = 2
    /\ result.exc = "AssertionError"

\* C4 as stated: a stream without a sample-class div start tag never fails
\* and getExamples returns the empty list.  A div start tag whose class
\* attribute has no value (<div class>) raises AttributeError at
\* attrs.get('class', '').find, recording or not, and is such a stream.
C4_AsStated ==
    "sample_div" \notin seen
    => /\ pc # "raised"
       /\ pc = "done" => result = Returned(<<>>)

\* C5 as stated: a br start tag processed while recording leaves the stack
\* as it was; any other start tag processed while recording deepens it by one.
C5_AsStated ==
    [][(parser.recording /\ Created)
       => IF parser'.nodes[NewNode].tag = "br"
          THEN parser'.stack = parser.stack
          ELSE Len(parser'.stack) = Len(parser.stack) + 1]_vars

\* C5 (amended): every start tag processed while recording, br included,
\* pushes its new node: the stack after the event is the stack before it
\* with the new node on top.
C5_StartTagPushes ==
    [][(parser.recording /\ Created)
       => parser'.stack = Append(parser.stack, NewNode)]_vars

\* A br node sits on the stack above the node it was opened in.
C5_Witness ==
    \E i \in 2..Len(parser.stack) : parser.nodes[parser.stack[i]].tag = "br"

\* C6: a br start tag processed while recording appends exactly one newline
\* to the data of the node on top of the stack and adds nothing to that
\* node's children.
C6_BrNewline ==
    [][(parser.recording /\ CreatedBr)
       => /\ parser'.nodes[Top(parser)].data = parser.nodes[Top(parser)].data \o <<10>>
          /\ parser'.nodes[Top(parser)].children = parser.nodes[Top(parser)].children
          /\ ~IsChild(parser', NewNode)]_vars

\* A node whose data ends in the newline of a br that is not its child.
C6_Witness ==
    \E n \in Ids(parser) :
        /\ parser.nodes[n].tag = "pre"
        /\ parser.nodes[n].data = <<60, 10>>
        /\ parser.nodes[n].children = <<>>
        /\ \E b \in Ids(parser) : parser.nodes[b].tag = "br"

(***************************************************************************)
(* ContestHTMLParser.                                                      *)
(***************************************************************************)
STR_contest == <<99, 111, 110, 116, 101, 115, 116, 47>>       \* "contest/"
STR_problem == <<47, 112, 114, 111, 98, 108, 101, 109, 47>>  \* "/problem/"


\* The end (0-based, exclusive) of the longest run starting at 0-based i
\* of characters of a class, given as the sequence of flags of s.
RunEnd(flags, i) ==
    CHOOSE j \in i..Len(flags) :
        /\ \A k \in (i + 1)..j : flags[k]
        /\ j = Len(flags) \/ ~flags[j + 1]

\* What the greedy \d+ and \w+ consume from 0-based i.
DigitsEnd(s, i) == RunEnd([k \in DOMAIN s |-> IsDigit(s[k])], i)
WordEnd(s, i) == RunEnd([k \in DOMAIN s |-> IsWord(s[k])], i)

\* re.compile('contest/\d+/problem/(\w+)') tried at 0-based position i:
\* the captured group, or <<>> when there is no match at i.  \d+ must take
\* the whole run of digits for the literal '/' to follow it.
Group(s, w0) == SubSeq(s, w0 + 1, WordEnd(s, w0))
AfterDigits(s, d0, d1) ==
    IF d1 = d0 \/ ~MatchesAt(s, STR_problem, d1) THEN <<>>
    ELSE Group(s, d1 + Len(STR_problem))
MatchAt(s, i) ==
    IF ~MatchesAt(s, STR_contest, i) THEN <<>>
    ELSE AfterDigits(s, i + Len(STR_contest), DigitsEnd(s, i + Len(STR_contest)))

\* self.re.search(href): the group of the leftmost match, <<>> for None.
Leftmost(groups) ==
    IF \A i \in DOMAIN groups : groups[i] = <<>> THEN <<>>
    ELSE groups[CHOOSE i \in DOMAIN groups :
                   /\ groups[i] # <<>>
                   /\ \A j \in DOMAIN groups : groups[j] # <<>> => i <= j]
Search(href) == Leftmost([i \in 0..Len(href) |-> MatchAt(href, i)])

ContestHTMLParser == [problems |-> {}]

\* if match: self.problems.add(match.group(1)), with <<>> for no match
add(c, group) == IF group = <<>> THEN c ELSE [c EXCEPT !.problems = @ \cup {group}]

\* Mutant of handle_starttag: the tag is not looked at.
contest_handle_starttag_anytag(c, tag, attrs) ==
    LET d == Dict(attrs)
    IN  IF "href" \notin DOMAIN d \/ d["href"] = None \/ d["href"] = <<>> THEN c
        ELSE add(c, Search(d["href"]))

\* ContestHTMLParser.handle_starttag
contest_handle_starttag(c, tag, attrs) ==
    IF tag # "a" THEN c
    ELSE LET d == Dict(attrs)
         IN  IF "href" \notin DOMAIN d \/ d["href"] = None \/ d["href"] = <<>> THEN c
             ELSE add(c, Search(d["href"]))

\* Python's order on str: code point by code point, a proper prefix first.
RECURSIVE StrLess(_, _)
StrLess(a, b) ==
    IF b = <<>> THEN FALSE
    ELSE IF a = <<>> THEN TRUE
    ELSE IF Head(a) # Head(b) THEN Head(a) < Head(b)
    ELSE StrLess(Tail(a), Tail(b))

RECURSIVE sorted(_)
sorted(S) ==
    IF S = {} THEN <<>>
    ELSE LET m == CHOOSE x \in S : \A y \in S \ {x} : StrLess(x, y)
         IN  <<m>> \o sorted(S \ {m})

getProblems(c) == sorted(c.problems)

(***************************************************************************)
(* SpecLinks: the start tags HTMLParser.feed hands to one                  *)
(* ContestHTMLParser, then getProblems().                                  *)
(***************************************************************************)
HREF_A     == <<47, 99, 111, 110, 116, 101, 115, 116, 47, 49, 47, 112, 114, 111, 98, 108, 101, 109, 47, 65>>   \* "/contest/1/problem/A"
HREF_A_q   == <<104, 116, 116, 112, 58, 47, 47, 120, 47, 99, 111, 110, 116, 101, 115, 116, 47, 49, 50, 47, 112, 114, 111, 98, 108, 101, 109, 47, 65, 63, 108, 111, 99, 97, 108, 101, 61, 101, 110>>   \* "http://x/contest/12/problem/A?locale=en"
HREF_B1    == <<47, 99, 111, 110, 116, 101, 115, 116, 47, 49, 47, 112, 114, 111, 98, 108, 101, 109, 47, 66, 49>>   \* "/contest/1/problem/B1"
HREF_a     == <<47, 99, 111, 110, 116, 101, 115, 116, 47, 49, 47, 112, 114, 111, 98, 108, 101, 109, 47, 97>>   \* "/contest/1/problem/a"
HREF_nodig == <<47, 99, 111, 110, 116, 101, 115, 116, 47, 120, 47, 112, 114, 111, 98, 108, 101, 109, 47, 67>>   \* "/contest/x/problem/C"
HREF_uni   == <<47, 99, 111, 110, 116, 101, 115, 116, 47, 1633, 47, 112, 114, 111, 98, 108, 101, 109, 47, 201>>   \* "/contest/\u0661/problem/\u00C9": an Arabic-Indic digit one, E acute
HREF_set   == <<47, 112, 114, 111, 98, 108, 101, 109, 115, 101, 116, 47, 112, 114, 111, 98, 108, 101, 109, 47, 49, 47, 68>>   \* "/problemset/problem/1/D"

Link(tag, attrs) == [tag |-> tag, attrs |-> attrs]
A(href) == Link("a", << <<"href", href>> >>)

\* Hyperlinks whose href holds the pattern, by the identifier in it.
LinksTo ==
    [id \in {<<65>>, <<66>>, <<66, 49>>, <<97>>, <<201>>} |->
        CASE id = <<65>>     -> {A(HREF_A), A(HREF_A_q),
                                 Link("a", << <<"class", STR_input>>, <<"href", HREF_A>> >>)}
          [] id = <<66>>     -> {A(<<47, 99, 111, 110, 116, 101, 115, 116, 47, 49, 47, 112, 114, 111, 98, 108, 101, 109, 47, 66>>)}    \* "/contest/1/problem/B"
          [] id = <<66, 49>> -> {A(HREF_B1)}
          [] id = <<97>>     -> {A(HREF_a)}
          [] id = <<201>>    -> {A(HREF_uni)}]

\* Start tags that must contribute nothing: no pattern in the href, an
\* empty href, an href without a value (<a href>), no href, not a hyperlink.
NoLinks ==
    { A(HREF_nodig), A(<<47, 99, 111, 110, 116, 101, 115, 116, 47, 49, 47, 112, 114, 111, 98, 108, 101, 109, 47>>),   \* "/contest/1/problem/"
      A(HREF_set), A(<<>>), A(None),
      Link("a", <<>>), Link("link", << <<"href", HREF_B1>> >>) }

LinkPool == NoLinks \cup UNION {LinksTo[id] : id \in DOMAIN LinksTo}

InitLinks ==
    /\ IdleParser
    /\ IdleMain
    /\ cparser = ContestHTMLParser
    /\ cpc = "feed"
    /\ cresult = <<>>
    /\ cfed = {}

LinkStartTag ==
    /\ cpc = "feed"
    /\ \E t \in LinkPool :
          /\ cparser' = contest_handle_starttag(cparser, t.tag, t.attrs)
          /\ cfed' = cfed \cup {t}
    /\ UNCHANGED <<cpc, cresult, pvars, mvars>>

GetProblems ==
    /\ cpc = "feed"
    /\ cpc' = "done"
    /\ cresult' = getProblems(cparser)
    /\ UNCHANGED <<cparser, cfed, pvars, mvars>>

NextLinks == LinkStartTag \/ GetProblems

SpecLinks == InitLinks /\ [][NextLinks]_vars

\* C7: getProblems returns a strictly ascending list whose elements are
\* exactly the identifiers of the hyperlinks fed whose href holds the
\* pattern, each once however often it was linked; other start tags
\* contribute nothing.
C7_SortedDistinctLinks ==
    cpc = "done"
    => /\ \A i \in 1..(Len(cresult) - 1) : StrLess(cresult[i], cresult[i + 1])
       /\ Range(cresult) = {id \in DOMAIN LinksTo : LinksTo[id] \cap cfed # {}}

\* Every identifier was linked, A three times, among tags that contribute
\* nothing.
C7_Witness ==
    /\ cpc = "done"
    /\ LinkPool = cfed
    /\ cresult = << <<65>>, <<66>>, <<66, 49>>, <<97>>, <<201>> >>

(***************************************************************************)
(* SpecMain: the module-level flow and download_problem on the executor.   *)
(* A page is the sequence of tags, text and references of its markup,      *)
(* after the three textual patches of download_problem; Convert gives the  *)
(* handler calls HTMLParser.feed makes for them, which depend on the       *)
(* interpreter's default for convert_charrefs.                             *)
(***************************************************************************)
max_workers == 5

Tok(type, tag, attrs, text) == [type |-> type, tag |-> tag, attrs |-> attrs, text |-> text]
TStart(tag, attrs) == Tok("starttag", tag, attrs, <<>>)
TEnd(tag)          == Tok("endtag", tag, <<>>, <<>>)
TData(data)        == Tok("data", "", <<>>, data)
TEntity(name)      == Tok("entityref", name, <<>>, <<>>)
TCharRef(name)     == Tok("charref", "", <<>>, name)

\* HTMLParser's dispatch of one token to the handler of its type.
Dispatch(p, tok) ==
    CASE tok.type = "starttag"  -> handle_starttag(p, tok.tag, tok.attrs)
      [] tok.type = "endtag"    -> Return(handle_endtag(p, tok.tag))
      [] tok.type = "data"      -> Return(handle_data(p, tok.text))
      [] tok.type = "entityref" -> handle_entityref(p, tok.tag)
      [] tok.type = "charref"   -> handle_charref(p, tok.text)
      \* a stretch of text whose unescape raises: with convert_charrefs set
      \* feed calls unescape on the text up to the next tag before it calls
      \* handle_data, and the exception leaves feed there
      [] tok.type = "raise"     -> Raise(p, tok.tag, tok.text)

\* parser.feed(problem_html): the handlers in document order, up to the
\* first that raises.
RECURSIVE Feed(_, _)
Feed(p, toks) ==
    IF toks = <<>> THEN Return(p)
    ELSE LET r == Dispatch(p, Head(toks))
         IN  IF r.exc # "None" THEN r ELSE Feed(r.self, Tail(toks))

\* ContestHTMLParser.feed(contest_html): only start tags have a handler.
RECURSIVE ContestFeed(_, _)
ContestFeed(c, links) ==
    IF links = <<>> THEN c
    ELSE ContestFeed(contest_handle_starttag(c, Head(links).tag, Head(links).attrs), Tail(links))


\* str(i) of a natural number
RECURSIVE Str(_)
Str(i) == IF i < 10 THEN <<48 + i>> ELSE Str(i \div 10) \o <<48 + (i % 10)>>


\* os.path.join(problem_dir, '{}.in.{}'.format(problem.lower(), i))
input_path(problem, i)  == lower(problem) \o <<47>> \o lower(problem) \o <<46, 105, 110, 46>> \o Str(i)
output_path(problem, i) == lower(problem) \o <<47>> \o lower(problem) \o <<46, 111, 117, 116, 46>> \o Str(i)

\* The pages the contest URI may serve.
ContestPages ==
    { << A(HREF_A), A(HREF_A_q), A(HREF_B1) >>,       \* A twice, B1
      << A(HREF_a), A(HREF_nodig), A(HREF_A) >>,      \* a and A
      << A(None), A(HREF_uni) >>,                     \* \u00C9 alone
      << Link("a", <<>>), A(HREF_set) >> }            \* no problem

SampleDiv == TStart("div", << <<"class", STR_sample_test>> >>)

\* The number of bytes from which on the text file object passes what was
\* written to it on to the file at once (the chunk size of
\* io.TextIOWrapper, which is io.DEFAULT_BUFFER_SIZE); fewer bytes wait in
\* the file object until it is closed.
CHUNK_SIZE == 8192

\* The pages a problem URI may serve; problem_html holds the name under
\* which ProblemPages lists the page that was served.
PAGE_one ==      \* one example ("3\n", "6<")
    << SampleDiv, TStart("pre", <<>>), TData(<<51>>), TStart("br", <<>>), TEnd("br"),
       TEnd("pre"), TStart("pre", <<>>), TData(<<54>>), TEntity("lt"), TEnd("pre"),
       TEnd("div") >>
PAGE_two ==      \* two examples ("1", "2"), ("<", "4")
    << TStart("div", << <<"class", STR_input>> >>), TEnd("div"),
       SampleDiv, SampleDiv,
       TStart("pre", <<>>), TData(<<49>>), TEnd("pre"),
       TStart("pre", <<>>), TData(<<50>>), TEnd("pre"), TEnd("div"), SampleDiv,
       TStart("pre", <<>>), TCharRef(<<120, 51, 99>>), TEnd("pre"),
       TStart("pre", <<>>), TData(<<52>>), TEnd("pre"), TEnd("div"), TEnd("div") >>
PAGE_odd ==      \* one pre block: getExamples asserts
    << SampleDiv, TStart("pre", <<>>), TData(<<49>>), TEnd("pre"), TEnd("div") >>
PAGE_bogus ==    \* an unknown entity in the output block of one example
    << SampleDiv, TStart("pre", <<>>), TData(<<49>>), TEnd("pre"),
       TStart("pre", <<>>), TEntity("bogus"), TEnd("pre"), TEnd("div") >>
PAGE_none ==     \* no sample region
    << TStart("div", << <<"class", STR_input>> >>), TData(<<49>>), TEnd("div") >>
PAGE_long ==     \* a decimal reference of 4301 digits, more than int() converts
    << SampleDiv, TStart("pre", <<>>), TCharRef([i \in 1..(MAX_STR_DIGITS + 1) |-> 49]), TEnd("pre"),
       TStart("pre", <<>>), TData(<<49>>), TEnd("pre"), TEnd("div") >>
PAGE_big ==      \* an input of CHUNK_SIZE characters, which f.write passes on at
                 \* once, and a reference to a surrogate (&#xD800;) as the output
    << SampleDiv, TStart("pre", <<>>), TData([i \in 1..CHUNK_SIZE |-> 55]), TEnd("pre"),
       TStart("pre", <<>>), TCharRef(<<120, 68, 56, 48, 48>>), TEnd("pre"), TEnd("div") >>
PAGE_valueless ==    \* no sample region, and a div whose class has no value
    << TStart("p", <<>>), TData(<<49>>), TEnd("p"),
       TStart("div", << <<"id", <<97>> >>, <<"class", None>> >>) >>

ProblemPages ==
    [one |-> PAGE_one, two |-> PAGE_two, odd |-> PAGE_odd, bogus |-> PAGE_bogus,
     none |-> PAGE_none, valueless |-> PAGE_valueless, long |-> PAGE_long,
     big |-> PAGE_big]

\* The spelling of the entity names the model feeds.
Spelling == [lt |-> <<108, 116>>, bogus |-> <<98, 111, 103, 117, 115>>]

\* html.entities.html5, restricted to the names the model feeds.
html5 == [lt |-> <<60>>, gt |-> <<62>>, amp |-> <<38>>, quot |-> <<34>>]

\* html.unescape of one reference, as feed applies it to the text between
\* tags when convert_charrefs is set: a known name gives its character, an
\* unknown name stays as the text '&name;'; a number is read in base 16
\* after x or X and in base 10 otherwise, and gives U+FFFD when it is a
\* surrogate or beyond U+10FFFF.  (None of the numbers the model feeds is
\* in the tables of replaced and dropped code points.)
\* html._replace_charref for a numeric reference: the replacement the
\* table of invalid references has for num (invalid holds its entries for
\* num), U+FFFD for a surrogate or a number beyond 0x10FFFF, nothing for an
\* invalid code point, chr(num) otherwise.
replace_number(num, invalid) ==
    IF invalid # {} THEN <<(CHOOSE e \in invalid : TRUE)[2]>>
    ELSE IF (55296 <= num /\ num <= 57343) \/ num > 1114111 THEN <<65533>>
    ELSE IF InRanges(num, INVALID_CODEPOINTS) THEN <<>>
    ELSE chr(num)
replace_charref(num) ==
    replace_number(num, {e \in Range(INVALID_CHARREFS) : e[1] = num})

unescape(tok) ==
    IF tok.type = "data" THEN tok.text
    ELSE IF tok.type = "entityref"
    THEN IF tok.tag \in DOMAIN html5 THEN html5[tok.tag]
         ELSE <<38>> \o Spelling[tok.tag] \o <<59>>
    ELSE IF tok.text[1] \in {120, 88}
    THEN replace_charref(int(SliceFrom(tok.text, 1), 16))
    ELSE replace_charref(int(tok.text, 10))

\* unescape(rawdata[i:j]) of the text between two tags, which feed hands to
\* handle_data in one call: the references replaced from left to right, or
\* the ValueError of the first reference that int() refuses.  That is a
\* decimal reference of more digits than the limit: a reference holds
\* digits only, so int() finds no other fault with it.
unescape_text(toks) ==
    LET bad == {k \in DOMAIN toks :
                   /\ toks[k].type = "charref"
                   /\ toks[k].text[1] \notin {120, 88}
                   /\ ~int_ok(toks[k].text, 10)}
    IN  IF bad = {} THEN TData(Join([k \in DOMAIN toks |-> unescape(toks[k])]))
        ELSE Tok("raise", "ValueError", <<>>,
                 int_limit(toks[CHOOSE k \in bad : \A m \in bad : k <= m].text))

\* The tokens the handlers see.  With convert_charrefs set (the default of
\* HTMLParser.__init__ from Python 3.5 on, which ProblemHTMLParser() takes)
\* feed hands the text between two tags to handle_data in one call, its
\* references unescaped, and never calls handle_entityref or
\* handle_charref; without it (the interpreters before 3.5) each reference
\* goes to its handler.
RECURSIVE Convert(_, _)
Convert(cc, toks) ==
    IF ~cc \/ toks = <<>> THEN toks
    ELSE LET IsText(k) == toks[k].type \in {"data", "entityref", "charref"}
             n == (CHOOSE j \in 1..(Len(toks) + 1) :
                       /\ j = Len(toks) + 1 \/ ~IsText(j)
                       /\ \A k \in 1..(j - 1) : IsText(k)) - 1
         IN  IF n = 0 THEN <<Head(toks)>> \o Convert(cc, Tail(toks))
             ELSE <<unescape_text(SubSeq(toks, 1, n))>>
                  \o Convert(cc, SubSeq(toks, n + 1, Len(toks)))

\* What download_problem computes from a page: the outcome of feed and, when
\* feed returned, of getExamples.
Extract(cc, page) ==
    LET fed == Feed(ProblemHTMLParser, Convert(cc, page))
    IN  [fed |-> fed.exc,
         examples |-> IF fed.exc = "None" THEN getExamples(fed.self)
                      ELSE RaisedWith(fed.exc, fed.args)]

Extracted ==
    [cc \in BOOLEAN |-> [page \in DOMAIN ProblemPages |-> Extract(cc, ProblemPages[page])]]

\* Mutant of Scraped: one entry per matching hyperlink, repeats kept.
Scraped_perlink ==
    LET RECURSIVE perlink(_)
        perlink(links) ==
            IF links = <<>> THEN <<>>
            ELSE LET c == contest_handle_starttag(ContestHTMLParser, Head(links).tag,
                                                  Head(links).attrs)
                 IN  (IF c.problems = {} THEN <<>>
                      ELSE <<CHOOSE id \in c.problems : TRUE>>) \o perlink(Tail(links))
    IN  [page \in ContestPages |-> perlink(page)]

\* What the main flow computes from a contest page.
Scraped == [page \in ContestPages |-> getProblems(ContestFeed(ContestHTMLParser, page))]

\* No contest page of the model links more problems than this.
TaskIds == 1..2

\* One submitted call of download_problem.  pc is where the call stands:
\* "queued" in the work queue, "run" taken by a thread, "urlopen" inside
\* urlopen().read(), "retrieved" with the page, "except" in the handler of a
\* failed feed, "isdir" and "mkdir" at the directory, "open", "fwrite" and
\* "close" at the n-th file of the loop, "wrote" before the last print,
\* "done" returned, "failed" raised.  problem_html names the page the
\* fetch returned ("None" before it), thread says that a
\* worker thread is at this call: from the get() that took it to the
\* release of the idle semaphore that follows its end.
Task(problem) ==
    [problem |-> problem, pc |-> "queued", problem_html |-> "None", examples |-> <<>>,
     exc |-> "None", n |-> 0, thread |-> FALSE]

Finished(t) == t \in DOMAIN tasks /\ tasks[t].pc \in {"done", "failed"}
Running == {t \in DOMAIN tasks : tasks[t].thread}

\* The path and content of the n-th file download_problem writes: input and
\* output of example 1, input and output of example 2, ...
NthPath(problem, n) ==
    IF n % 2 = 1 THEN input_path(problem, (n + 1) \div 2)
                 ELSE output_path(problem, n \div 2)
NthContent(examples, n) ==
    IF n % 2 = 1 THEN examples[(n + 1) \div 2][1] ELSE examples[n \div 2][2]

\* str.encode('utf-8') of a text that holds no surrogate, which is what
\* the file object writes of it.
encode(text) ==
    IF SelectSeq(text, LAMBDA c : c >= 128) = <<>> THEN text
    ELSE Join([i \in DOMAIN text |->
            IF text[i] < 128 THEN <<text[i]>>
            ELSE IF text[i] < 2048
            THEN <<192 + (text[i] \div 64), 128 + (text[i] % 64)>>
            ELSE IF text[i] < 65536
            THEN <<224 + (text[i] \div 4096), 128 + ((text[i] \div 64) % 64),
                   128 + (text[i] % 64)>>
            ELSE <<240 + (text[i] \div 262144), 128 + ((text[i] \div 4096) % 64),
                   128 + ((text[i] \div 64) % 64), 128 + (text[i] % 64)>>])

\* The file system with the bytes of path replaced from its start by
\* content: what a file object opened with 'w' does when it writes, its
\* position being 0 whatever another writer has done to the file since.
WriteFile(fs, path, content) ==
    [q \in DOMAIN fs \cup {path} |->
        IF q # path THEN fs[q]
        ELSE IF path \in DOMAIN fs
        THEN content \o SubSeq(fs[path], Len(content) + 1, Len(fs[path]))
        ELSE content]

\* Mutant of Fail: the exception of one call tears the other calls down.
Fail_abort(ts, t, e) ==
    [i \in DOMAIN ts |->
        IF i = t THEN [ts[i] EXCEPT !.pc = "failed", !.exc = e]
        ELSE IF ts[i].pc \in {"done", "failed"} THEN ts[i]
        ELSE [ts[i] EXCEPT !.pc = "cancelled"]]

\* A call that raises: the executor stores the exception in the call's
\* future, which nothing reads, and the thread goes on to the next call.
Fail(ts, t, e) == [ts EXCEPT ![t].pc = "failed", ![t].exc = e]

InitMain ==
    /\ IdleParser
    /\ IdleLinks
    /\ mpc = "fetch"
    /\ contest_html = <<>>
    /\ problems = <<>>
    /\ tasks = <<>>
    /\ queue = <<>>
    /\ nthreads = 0
    /\ idle_sem = 0
    /\ dirs = {}
    /\ files = <<>>
    /\ stdout = {}
    /\ stderr = {}
    /\ exit_code = -1
    /\ convert_charrefs \in BOOLEAN

\* urllib.request.urlopen(contest_uri) returns a page.
FetchContest ==
    /\ mpc = "fetch"
    /\ \E page \in ContestPages : contest_html' = page
    /\ mpc' = "parse"
    /\ stdout' = stdout \cup {<<"Retrieving contest">>, <<"OK">>}
    /\ UNCHANGED <<problems, tasks, queue, nthreads, idle_sem, dirs, files, stderr,
                   exit_code, convert_charrefs,
                   pvars, lvars>>

\* Mutant of FetchContestFails: the exception is caught and the run ends
\* normally.
FetchContestFails_swallowed ==
    /\ mpc = "fetch"
    /\ mpc' = "exited"
    /\ stdout' = stdout \cup {<<"Retrieving contest">>}
    /\ stderr' = stderr \cup {<<"Traceback", "URLError">>}
    /\ exit_code' = 0
    /\ UNCHANGED <<contest_html, problems, tasks, queue, nthreads, idle_sem, dirs,
                   files, convert_charrefs, pvars, lvars>>

\* urlopen(contest_uri) raises: nothing catches it, the interpreter prints
\* the traceback and exits with status 1.
FetchContestFails ==
    /\ mpc = "fetch"
    /\ mpc' = "exited"
    /\ stdout' = stdout \cup {<<"Retrieving contest">>}
    /\ stderr' = stderr \cup {<<"Traceback", "URLError">>}
    /\ exit_code' = 1
    /\ UNCHANGED <<contest_html, problems, tasks, queue, nthreads, idle_sem, dirs,
                   files, convert_charrefs,
                   pvars, lvars>>

\* parser = ContestHTMLParser(); parser.feed(contest_html); getProblems()
ParseContest ==
    /\ mpc = "parse"
    /\ problems' = Scraped[contest_html]
    /\ stdout' = stdout \cup {<<"Found", Len(problems')>>}
    /\ mpc' = "submit"
    /\ UNCHANGED <<contest_html, tasks, queue, nthreads, idle_sem, dirs, files, stderr,
                   exit_code, convert_charrefs,
                   pvars, lvars>>

\* executor.submit(download_problem, contest_uri, problem), first half:
\* self._work_queue.put(w).  From here on a thread that is waiting on the
\* queue may take the call, before submit goes on.
Submit ==
    /\ mpc = "submit"
    /\ Len(tasks) < Len(problems)
    /\ tasks' = Append(tasks, Task(problems[Len(tasks) + 1]))
    /\ queue' = Append(queue, Len(tasks) + 1)
    /\ mpc' = "adjust"
    /\ UNCHANGED <<contest_html, problems, nthreads, idle_sem, dirs, files, stdout,
                   stderr, exit_code, convert_charrefs,
                   pvars, lvars>>

\* executor.submit, second part: self._adjust_thread_count() begins with
\* self._idle_semaphore.acquire(timeout=0) and returns when that took the
\* semaphore.
adjust_thread_count ==
    /\ mpc = "adjust"
    /\ IF idle_sem > 0
       THEN idle_sem' = idle_sem - 1 /\ mpc' = "submit"
       ELSE UNCHANGED idle_sem /\ mpc' = "start"
    /\ UNCHANGED <<contest_html, problems, tasks, queue, nthreads, dirs, files, stdout,
                   stderr, exit_code, convert_charrefs,
                   pvars, lvars>>

\* executor.submit, third part: _adjust_thread_count found no idle thread
\* and starts one unless max_workers were started.  A worker may have
\* released the semaphore since the test.
start_thread ==
    /\ mpc = "start"
    /\ nthreads' = IF nthreads < max_workers THEN nthreads + 1 ELSE nthreads
    /\ mpc' = "submit"
    /\ UNCHANGED <<contest_html, problems, tasks, queue, idle_sem, dirs, files, stdout,
                   stderr, exit_code, convert_charrefs,
                   pvars, lvars>>

\* The end of the with block joins the threads, which end when every call
\* has ended and they are back at the queue; the module ends and the
\* process exits with status 0.
Shutdown ==
    /\ mpc = "submit"
    /\ Len(tasks) = Len(problems)
    /\ \A t \in DOMAIN tasks : Finished(t)
    /\ Running = {}
    /\ mpc' = "exited"
    /\ exit_code' = 0
    /\ UNCHANGED <<contest_html, problems, tasks, queue, nthreads, idle_sem, dirs, files,
                   stdout, stderr, convert_charrefs,
                   pvars, lvars>>

\* _worker: work_item = work_queue.get(block=True).  A thread that is at no
\* call takes the call at the head of the queue.
WorkerGet(t) ==
    /\ queue # <<>>
    /\ Head(queue) = t
    /\ Cardinality(Running) < nthreads
    /\ queue' = Tail(queue)
    /\ tasks' = [tasks EXCEPT ![t].pc = "run", ![t].thread = TRUE]
    /\ UNCHANGED <<mpc, contest_html, problems, nthreads, idle_sem, dirs, files, stdout,
                   stderr, exit_code, convert_charrefs,
                   pvars, lvars>>

\* print('Retrieving', problem_uri, '...')
Retrieving(t) ==
    /\ t \in DOMAIN tasks
    /\ tasks[t].pc = "run"
    /\ stdout' = stdout \cup {<<"Retrieving", tasks[t].problem>>}
    /\ tasks' = [tasks EXCEPT ![t].pc = "urlopen"]
    /\ UNCHANGED <<mpc, contest_html, problems, queue, nthreads, idle_sem, dirs, files,
                   stderr, exit_code, convert_charrefs,
                   pvars, lvars>>

\* urllib.request.urlopen(problem_uri).read().decode('utf-8') raises, or
\* returns a page.
Urlopen(t) ==
    /\ t \in DOMAIN tasks
    /\ tasks[t].pc = "urlopen"
    /\ \/ tasks' = Fail(tasks, t, "URLError")
       \/ \E page \in DOMAIN ProblemPages :
              tasks' = [tasks EXCEPT ![t].pc = "retrieved", ![t].problem_html = page]
    /\ UNCHANGED <<mpc, contest_html, problems, queue, nthreads, idle_sem, dirs, files,
                   stdout, stderr, exit_code, convert_charrefs,
                   pvars, lvars>>

\* print('Retrieved problem ...'), then the patches, feed and, when feed
\* returned, getExamples, which touch nothing but the call's own objects.
Retrieved(t) ==
    /\ t \in DOMAIN tasks
    /\ tasks[t].pc = "retrieved"
    /\ stdout' = stdout \cup {<<"Retrieved", tasks[t].problem>>}
    /\ LET extracted == Extracted[convert_charrefs][tasks[t].problem_html]
       IN  tasks' = IF extracted.fed # "None"
                    THEN [tasks EXCEPT ![t].pc = "except", ![t].exc = extracted.fed]
                    ELSE IF extracted.examples.exc # "None"
                    THEN Fail(tasks, t, extracted.examples.exc)
                    ELSE [tasks EXCEPT ![t].pc = "isdir",
                                       ![t].examples = extracted.examples.value]
    /\ UNCHANGED <<mpc, contest_html, problems, queue, nthreads, idle_sem, dirs, files,
                   stderr, exit_code, convert_charrefs,
                   pvars, lvars>>

\* except: print(problem_html, file=sys.stderr); raise
Except(t) ==
    /\ t \in DOMAIN tasks
    /\ tasks[t].pc = "except"
    /\ stderr' = stderr \cup {<<"problem_html", tasks[t].problem>>}
    /\ tasks' = Fail(tasks, t, tasks[t].exc)
    /\ UNCHANGED <<mpc, contest_html, problems, queue, nthreads, idle_sem, dirs, files,
                   stdout, exit_code, convert_charrefs,
                   pvars, lvars>>

\* The call goes on to the loop over the examples, or past an empty loop to
\* the last print.
ToLoop(ts, t) ==
    IF ts[t].examples = <<>> THEN [ts EXCEPT ![t].pc = "wrote"]
    ELSE [ts EXCEPT ![t].pc = "open", ![t].n = 1]

\* if not os.path.isdir(problem_dir):
IsDir(t) ==
    /\ t \in DOMAIN tasks
    /\ tasks[t].pc = "isdir"
    /\ tasks' = IF lower(tasks[t].problem) \in dirs THEN ToLoop(tasks, t)
                ELSE [tasks EXCEPT ![t].pc = "mkdir"]
    /\ UNCHANGED <<mpc, contest_html, problems, queue, nthreads, idle_sem, dirs, files,
                   stdout, stderr, exit_code, convert_charrefs,
                   pvars, lvars>>

\* os.mkdir(problem_dir): FileExistsError when the directory is there by now.
MkDir(t) ==
    /\ t \in DOMAIN tasks
    /\ tasks[t].pc = "mkdir"
    /\ IF lower(tasks[t].problem) \in dirs
       THEN /\ tasks' = Fail(tasks, t, "FileExistsError")
            /\ UNCHANGED dirs
       ELSE /\ dirs' = dirs \cup {lower(tasks[t].problem)}
            /\ tasks' = ToLoop(tasks, t)
    /\ UNCHANGED <<mpc, contest_html, problems, queue, nthreads, idle_sem, files,
                   stdout, stderr, exit_code, convert_charrefs,
                   pvars, lvars>>

\* with open(path, 'w') as f: the n-th file of the loop is created, or
\* emptied when it is there.
Open(t) ==
    /\ t \in DOMAIN tasks
    /\ tasks[t].pc = "open"
    /\ files' = [q \in DOMAIN files \cup {NthPath(tasks[t].problem, tasks[t].n)} |->
                    IF q = NthPath(tasks[t].problem, tasks[t].n) THEN <<>> ELSE files[q]]
    /\ tasks' = [tasks EXCEPT ![t].pc = "fwrite"]
    /\ UNCHANGED <<mpc, contest_html, problems, queue, nthreads, idle_sem, dirs,
                   stdout, stderr, exit_code, convert_charrefs,
                   pvars, lvars>>

\* f.write(example[...]): the text is encoded, which raises
\* UnicodeEncodeError for a surrogate (the with block then closes the empty
\* file object and the call fails); CHUNK_SIZE bytes or more are written to
\* the file at once, fewer stay in the file object and the file stays as it
\* is.
FWrite(t) ==
    /\ t \in DOMAIN tasks
    /\ tasks[t].pc = "fwrite"
    /\ LET text == NthContent(tasks[t].examples, tasks[t].n)
       IN  IF SelectSeq(text, LAMBDA c : c \in 55296..57343) # <<>>
           THEN /\ tasks' = Fail(tasks, t, "UnicodeEncodeError")
                /\ UNCHANGED files
           ELSE /\ tasks' = [tasks EXCEPT ![t].pc = "close"]
                /\ files' = IF Len(encode(text)) >= CHUNK_SIZE
                            THEN WriteFile(files, NthPath(tasks[t].problem, tasks[t].n),
                                           encode(text))
                            ELSE files
    /\ UNCHANGED <<mpc, contest_html, problems, queue, nthreads, idle_sem, dirs,
                   stdout, stderr, exit_code, convert_charrefs,
                   pvars, lvars>>

\* The end of the with block closes the file object, which writes to the
\* file what it still holds: the text of fewer than CHUNK_SIZE bytes.  The
\* loop goes on to the next file or ends.
Close(t) ==
    /\ t \in DOMAIN tasks
    /\ tasks[t].pc = "close"
    /\ LET bytes == encode(NthContent(tasks[t].examples, tasks[t].n))
       IN  files' = IF Len(bytes) < CHUNK_SIZE
                    THEN WriteFile(files, NthPath(tasks[t].problem, tasks[t].n), bytes)
                    ELSE files
    /\ tasks' = IF tasks[t].n = 2 * Len(tasks[t].examples)
                THEN [tasks EXCEPT ![t].pc = "wrote"]
                ELSE [tasks EXCEPT ![t].pc = "open", ![t].n = @ + 1]
    /\ UNCHANGED <<mpc, contest_html, problems, queue, nthreads, idle_sem, dirs,
                   stdout, stderr, exit_code, convert_charrefs,
                   pvars, lvars>>

\* print('Wrote {} examples for problem {}.'...), and the call returns.
Wrote(t) ==
    /\ t \in DOMAIN tasks
    /\ tasks[t].pc = "wrote"
    /\ stdout' = stdout \cup {<<"Wrote", Len(tasks[t].examples), tasks[t].problem>>}
    /\ tasks' = [tasks EXCEPT ![t].pc = "done"]
    /\ UNCHANGED <<mpc, contest_html, problems, queue, nthreads, idle_sem, dirs, files,
                   stderr, exit_code, convert_charrefs,
                   pvars, lvars>>

\* _worker, after work_item.run() has returned or stored the exception of
\* the call: executor._idle_semaphore.release(), and back to the queue.
Release(t) ==
    /\ Finished(t)
    /\ tasks[t].thread
    /\ idle_sem' = idle_sem + 1
    /\ tasks' = [tasks EXCEPT ![t].thread = FALSE]
    /\ UNCHANGED <<mpc, contest_html, problems, queue, nthreads, dirs, files, stdout,
                   stderr, exit_code, convert_charrefs,
                   pvars, lvars>>

NextMain ==
    \/ FetchContest
    \/ FetchContestFails
    \/ ParseContest
    \/ Submit
    \/ adjust_thread_count
    \/ start_thread
    \/ Shutdown
    \/ \E t \in TaskIds : WorkerGet(t)
    \/ \E t \in TaskIds : Retrieving(t)
    \/ \E t \in TaskIds : Urlopen(t)
    \/ \E t \in TaskIds : Retrieved(t)
    \/ \E t \in TaskIds : Except(t)
    \/ \E t \in TaskIds : IsDir(t)
    \/ \E t \in TaskIds : MkDir(t)
    \/ \E t \in TaskIds : Open(t)
    \/ \E t \in TaskIds : FWrite(t)
    \/ \E t \in TaskIds : Close(t)
    \/ \E t \in TaskIds : Wrote(t)
    \/ \E t \in TaskIds : Release(t)

SpecMain == InitMain /\ [][NextMain]_vars

\* Where the threads stand: the main thread, and for each call its place in
\* download_problem, the file of the loop it is at and whether a thread is
\* at it.  Every step of a thread changes it.
Control == <<mpc, [u \in DOMAIN tasks |-> <<tasks[u].pc, tasks[u].n, tasks[u].thread>>]>>

\* The scheduling: a thread that can take its next step takes it, and the
\* prints and the calls on the local file system return.  Nothing is asked
\* of the network: urlopen is called without a timeout (lines 115 and 161)
\* and may block for ever, so neither the fetch of the contest page nor
\* Urlopen is under fairness.
SpecMainFair ==
    /\ SpecMain
    /\ WF_Control(ParseContest)
    /\ WF_Control(Submit)
    /\ WF_Control(adjust_thread_count)
    /\ WF_Control(start_thread)
    /\ WF_Control(Shutdown)
    /\ \A t \in TaskIds :
          /\ WF_Control(WorkerGet(t))
          /\ WF_Control(Retrieving(t))
          /\ WF_Control(Retrieved(t))
          /\ WF_Control(Except(t))
          /\ WF_Control(IsDir(t))
          /\ WF_Control(MkDir(t))
          /\ WF_Control(Open(t))
          /\ WF_Control(FWrite(t))
          /\ WF_Control(Close(t))
          /\ WF_Control(Wrote(t))
          /\ WF_Control(Release(t))

(***************************************************************************)
(* Properties of SpecMain.                                                 *)
(***************************************************************************)
Failed(t) == t \in DOMAIN tasks /\ tasks[t].pc = "failed"
OutputDir(t) == lower(tasks[t].problem)
\* The call has looked at, created or written into its output directory.
Touched(t) ==
    t \in DOMAIN tasks /\ tasks[t].pc \in {"mkdir", "open", "fwrite", "close", "wrote", "done"}

\* C8: when the process has ended and a download_problem call failed, the
\* exit status is not zero.
C8_AsStated ==
    (mpc = "exited" /\ \E t \in TaskIds : Failed(t)) => exit_code # 0

\* Call t is inside urlopen, waiting for the network.
InUrlopen(t) == t \in DOMAIN tasks /\ tasks[t].pc = "urlopen"

\* The step in which a call fails changes nothing but that call and what
\* it has printed: every other call, the queue, the main thread, the
\* threads, the semaphore, the directories and the files are as before.
C9_Isolated ==
    \A t \in DOMAIN tasks :
        (tasks[t].pc # "failed" /\ t \in DOMAIN tasks' /\ tasks'[t].pc = "failed")
        => /\ DOMAIN tasks' = DOMAIN tasks
           /\ \A u \in DOMAIN tasks \ {t} : tasks'[u] = tasks[u]
           /\ UNCHANGED <<mpc, queue, nthreads, idle_sem, dirs, files, exit_code>>

C10_AsStated ==
    \A t, u \in TaskIds :
        (t # u /\ Touched(t) /\ Touched(u)) => OutputDir(t) # OutputDir(u)

\* The identifiers the hyperlinks of a contest page hold, read off the
\* classification of the hyperlinks.
LinkedIds(page) == {id \in DOMAIN LinksTo : \E i \in DOMAIN page : page[i] \in LinksTo[id]}
\* The step in which call t announces its problem URI and goes to open it.
Fetches(t) == t \in DOMAIN tasks /\ tasks[t].pc = "run" /\ tasks'[t].pc = "urlopen"

C11_Submissions ==
    /\ \A t, u \in DOMAIN tasks : t # u => tasks[t].problem # tasks[u].problem
    /\ {tasks[t].problem : t \in DOMAIN tasks} \subseteq LinkedIds(contest_html)
    /\ (mpc = "exited" /\ exit_code = 0)
       => /\ Len(tasks) = Cardinality(LinkedIds(contest_html))
          /\ \A t \in DOMAIN tasks : <<"Retrieving", tasks[t].problem>> \in stdout

C11_FetchedOnce ==
    \A t \in TaskIds : Fetches(t) => <<"Retrieving", tasks[t].problem>> \notin stdout

\* C11: the calls submitted are for pairwise distinct identifiers, all of
\* them linked by the contest page; when the run ends there is one call per
\* distinct linked identifier, each has opened its problem URI, and no call
\* opens the URI of an identifier that was opened before.
C11_OneFetchPerId == [](C11_Submissions) /\ [][C11_FetchedOnce]_vars

\* The page linking A twice and B1 once: the run ended after two calls.
C11_Witness ==
    /\ mpc = "exited"
    /\ exit_code = 0
    /\ contest_html = << A(HREF_A), A(HREF_A_q), A(HREF_B1) >>
    /\ Len(tasks) = 2
    /\ {<<"Retrieving", <<65>>>>, <<"Retrieving", <<66, 49>>>>} \subseteq stdout

\* The page served to call t holds a reference to an entity that is not in
\* name2codepoint.
HasUnknownEntity(t) ==
    /\ tasks[t].problem_html # "None"
    /\ \E tok \in Range(ProblemPages[tasks[t].problem_html]) :
           tok.type = "entityref" /\ tok.tag \notin DOMAIN name2codepoint

\* C12: a call whose page holds a reference to an unknown entity fails with
\* the AssertionError of handle_entityref, dumps the page to stderr and
\* writes nothing of that page.
C12_AsStated ==
    \A t \in DOMAIN tasks :
        (Finished(t) /\ HasUnknownEntity(t))
        => /\ tasks[t].pc = "failed"
           /\ tasks[t].exc = "AssertionError"
           /\ <<"problem_html", tasks[t].problem>> \in stderr

\* The fetch of the contest page raised.
ContestFetchFailed == <<"Traceback", "URLError">> \in stderr

\* C13: once the fetch of the contest page has raised, the process has
\* ended with a non-zero status; no page was parsed, no identifier
\* extracted, no call submitted or started, no thread started, and nothing
\* written.
C13_ContestFetchAborts ==
    ContestFetchFailed
    => /\ mpc = "exited"
       /\ exit_code \notin {0, -1}
       /\ contest_html = <<>>
       /\ problems = <<>>
       /\ tasks = <<>> /\ queue = <<>> /\ nthreads = 0
       /\ dirs = {} /\ files = <<>>
       /\ \A line \in stdout : line = <<"Retrieving contest">>

\* The run ended at the failed fetch of the contest page.
C13_Witness ==
    /\ ContestFetchFailed
    /\ mpc = "exited"
    /\ exit_code = 1
    /\ tasks = <<>>

(***************************************************************************)
(* Further properties of Spec.                                             *)
(***************************************************************************)
\* C14: in every state the parser reaches while it is fed, an end tag of
\* any name processed while recording removes exactly the top of the stack
\* and touches no node; the removed node is appended to sample_input_nodes
\* and recording is cleared exactly when it was the only node on the
\* stack; an end tag processed while not recording changes nothing.
C14_EndTagPops ==
    pc = "feed"
    => \A tag \in Tags :
          IF parser.recording
          THEN /\ parser.stack # <<>>
               /\ handle_endtag(parser, tag).stack =
                      SubSeq(parser.stack, 1, Len(parser.stack) - 1)
               /\ handle_endtag(parser, tag).nodes = parser.nodes
               /\ IF Len(parser.stack) = 1
                  THEN /\ handle_endtag(parser, tag).sample_input_nodes =
                             Append(parser.sample_input_nodes, Top(parser))
                       /\ ~handle_endtag(parser, tag).recording
                  ELSE /\ handle_endtag(parser, tag).sample_input_nodes =
                             parser.sample_input_nodes
                       /\ handle_endtag(parser, tag).recording
          ELSE handle_endtag(parser, tag) = parser

\* A region was closed by its root's end tag after a pre block in it was
\* closed, and a second region is open.
C14_Witness ==
    /\ pc = "feed"
    /\ parser.sample_input_nodes = <<1>>
    /\ parser.nodes[1].children = <<2>>
    /\ parser.nodes[2].tag = "pre"
    /\ parser.recording
    /\ Len(parser.stack) = 2

\* C15: after every token, and when feed has ended, recording is set
\* exactly when the stack is not empty: handle_data called while recording
\* has a top node to append to and handle_endtag called while recording has
\* a node to pop.
C15_RecordingIffStack == parser.recording <=> parser.stack # <<>>

\* Text was appended to the top node of a region two deep, the region was
\* closed, and the parser is between regions.
C15_Witness ==
    /\ pc = "feed"
    /\ ~parser.recording
    /\ parser.stack = <<>>
    /\ parser.sample_input_nodes = <<1>>
    /\ \E n \in Ids(parser) : n > 1 /\ parser.nodes[n].data = <<60>>

\* Nodes that are on the stack.
OnStack(p) == Range(p.stack)

\* A node that is not on the stack has no child on the stack.
C16_ClosedSubtrees ==
    \A n \in Ids(parser) :
        n \notin OnStack(parser)
        => \A c \in Range(parser.nodes[n].children) : c \notin OnStack(parser)

\* A step changes no node but the top of the stack, and of it only data
\* or children; it creates at most one node and drops none; a node that is
\* off the stack stays off it.
C16_OnlyTopChanges ==
    \/ parser' = parser
    \/ /\ Len(parser'.nodes) \in {Len(parser.nodes), Len(parser.nodes) + 1}
       /\ \A n \in Ids(parser) :
             /\ parser'.nodes[n].tag = parser.nodes[n].tag
             /\ parser'.nodes[n].attrs = parser.nodes[n].attrs
             /\ parser'.nodes[n] # parser.nodes[n]
                => /\ parser.stack # <<>>
                   /\ n = Top(parser)
             /\ n \notin OnStack(parser) => n \notin OnStack(parser')

\* C16: every event changes at most the node on top of the stack, and of
\* it only data or children; a node that has been popped is never pushed
\* again and no node of its subtree is on the stack, so the data and
\* children of a popped node and of its whole subtree stay as they were.
C16_FrozenOffStack == [](C16_ClosedSubtrees) /\ [][C16_OnlyTopChanges]_vars

\* A closed region whose pre block holds text, and a later region that is
\* open and has got a child.
C16_Witness ==
    /\ parser.sample_input_nodes = <<1>>
    /\ parser.nodes[1].children = <<2>>
    /\ parser.nodes[2].data = <<60>>
    /\ Len(parser.stack) = 2
    /\ parser.nodes[parser.stack[1]].children = <<parser.stack[2]>>

\* The data of the nodes of a list, in the order of the list.
TextsOf(p, ns) == [i \in 1..Len(ns) |-> p.nodes[ns[i]].data]

\* C17 as stated: the walk of the completed root collects the data of
\* every pre node of the root's tree in document order, a pre node inside
\* another pre node included.
C17_AsStated ==
    (pc = "done" /\ Len(parser.sample_input_nodes) = 1)
    => walkNodes(parser, parser.sample_input_nodes[1], <<>>)
         = TextsOf(parser, AllPres(parser, parser.sample_input_nodes[1]))

\* C17 (amended): the walk of the completed root collects, in document
\* order, the data of exactly the pre nodes of the root's tree that lie in
\* no other pre node: the walk does not go below a pre node.
C17_WalkOuterPres ==
    (pc = "done" /\ Len(parser.sample_input_nodes) = 1)
    => walkNodes(parser, parser.sample_input_nodes[1], <<>>)
         = TextsOf(parser, OuterPres(parser, parser.sample_input_nodes[1]))

\* The root walked holds two pre blocks side by side and a third inside
\* one of them.
C17_Witness ==
    /\ pc = "done"
    /\ Len(parser.sample_input_nodes) = 1
    /\ Len(OuterPres(parser, parser.sample_input_nodes[1])) = 2
    /\ Len(AllPres(parser, parser.sample_input_nodes[1])) = 3

\* The parser after <br> and an end tag of the given name.
AfterBr(p, tag) == handle_endtag(handle_starttag(p, "br", <<>>).self, tag)

\* C18: in every state the parser reaches while recording, a br start tag
\* followed at once by an end tag leaves the stack, recording and
\* sample_input_nodes as they were; of the nodes there were, only the top
\* one differs, by one newline at the end of its data; text after the pair
\* is appended to that same node.
C18_BrPairNeutral ==
    (pc = "feed" /\ parser.recording)
    => \A tag \in Tags :
          LET after == AfterBr(parser, tag)
          IN  /\ after.stack = parser.stack
              /\ after.recording = parser.recording
              /\ after.sample_input_nodes = parser.sample_input_nodes
              /\ SubSeq(after.nodes, 1, Len(parser.nodes)) =
                    [parser.nodes EXCEPT ![Top(parser)].data = @ \o <<10>>]
              /\ \A data \in TextPool :
                    handle_data(after, data).nodes[Top(parser)].data =
                        parser.nodes[Top(parser)].data \o <<10>> \o data

\* A br was opened and closed in a pre block that held text: the pre block
\* is on top of the stack again, its data ends in the newline, and the br
\* node is neither on the stack nor anyone's child.
C18_Witness ==
    /\ pc = "feed"
    /\ parser.recording
    /\ Len(parser.stack) = 2
    /\ parser.nodes[Top(parser)].tag = "pre"
    /\ parser.nodes[Top(parser)].data = <<60, 10>>
    /\ \E b \in Ids(parser) :
          /\ parser.nodes[b].tag = "br"
          /\ b \notin Range(parser.stack)
          /\ ~IsChild(parser, b)

\* C19: when feed ends inside the first sample region (recording, the
\* stack not empty, no completed root), getExamples returns the empty list
\* and raises nothing, whatever was recorded in the open region.
C19_OpenRegionEmpty ==
    (/\ pc = "done"
     /\ parser.recording
     /\ parser.stack # <<>>
     /\ parser.sample_input_nodes = <<>>)
    => result = Returned(<<>>)

\* feed ended in an open region that holds two closed pre blocks, one of
\* them with text.
C19_Witness ==
    /\ pc = "done"
    /\ parser.recording
    /\ parser.sample_input_nodes = <<>>
    /\ parser.stack = <<1>>
    /\ Len(OuterPres(parser, 1)) = 2
    /\ \E n \in Range(parser.nodes[1].children) : parser.nodes[n].data = <<60>>
    /\ result = Returned(<<>>)

(***************************************************************************)
(* Further properties of SpecMain.                                         *)
(***************************************************************************)
\* Call t has fetched its page; feed and getExamples raised nothing on it.
Fetched(t) == tasks[t].problem_html # "None"
ExtractionOK(t) ==
    /\ Fetched(t)
    /\ Extracted[convert_charrefs][tasks[t].problem_html].examples.exc = "None"
ExtractedExamples(t) == Extracted[convert_charrefs][tasks[t].problem_html].examples.value

\* C20: while no call's extraction has succeeded there is no directory and
\* no file; a call whose fetch, feed or getExamples raised has failed
\* without writing; a call that has ended after its extraction succeeded
\* with N examples has left the files <id>.in.n and <id>.out.n, n = 1..N,
\* in the directory of its lower-cased identifier.
C20_AsStated ==
    /\ (\A t \in DOMAIN tasks : ~ExtractionOK(t)) => (dirs = {} /\ files = <<>>)
    /\ \A t \in DOMAIN tasks :
          /\ (Finished(t) /\ ~ExtractionOK(t))
             => (tasks[t].pc = "failed" /\ tasks[t].n = 0)
          /\ (Finished(t) /\ ExtractionOK(t))
             => \A n \in 1..Len(ExtractedExamples(t)) :
                   /\ lower(tasks[t].problem) \in dirs
                   /\ input_path(tasks[t].problem, n) \in DOMAIN files
                   /\ output_path(tasks[t].problem, n) \in DOMAIN files

====
